---- MODULE Spec2Model ----
(***************************************************************************)
(* A model of vcsloc's commit-graph synchronisation: the graph builder of  *)
(* VcsDb.GetRepoInfo (src/loc/run.go), the run that calls it (Load,        *)
(* Analyze, Save: src/unnamed/part_002, src/unnamed/part_007) and the      *)
(* database files the run reads and writes.                                *)
(*                                                                         *)
(* Hashes are the numbers 1..n of a topological numbering of the fetched   *)
(* commits (a commit's hash is computed from its parents' hashes, so the   *)
(* commit log of a repository is acyclic and such a numbering exists).     *)
(* AbsentHash is a hash that no fetched commit carries.                    *)
(***************************************************************************)
EXTENDS Integers, Sequences, FiniteSets, TLC

\* ------------------------------------------------------------------ bounds
MaxCommits == 3
MaxRefs == 2
MaxParents == 2
MaxObjects == 2
MaxRuns == 2

\* processes that open the VcsDb2 one after another and the calls of
\* VcsDb2.Save they make between them; the calls that a process makes to Load
\* and Save of single sections
MaxProcs == 2

MaxSaves == 1

MaxCalls == 2

\* author timestamps of the commits of a graph that SaveOneGraph writes
MaxTimestamp == 2

\* the lines of a show-ref output, and the calls of GitRefs on one output
MaxLines == 3

MaxRefCalls == 2

\* the lines a subprocess writes to a stream, and the lines a pipe holds
\* before a write to it blocks
MaxOutput == 2

PipeLines == 1

\* bufio.MaxScanTokenSize, the size that the buffer of a bufio.Scanner made
\* by bufio.NewScanner grows to
MaxScanTokenSize == 65536

\* the empty string that run.go:181 (for hash != "") compares the walk position with
NoHash == 0
\* a hash that is absent from the fetched commit set
AbsentHash == MaxCommits + 1

VARIABLES
    pc,          \* position of the run
    db,          \* part_007:26  the VcsDb of the run
    disk,        \* the files of the database directory
    repo,        \* the repository, as the git commands of the run report it
    graph,       \* run.go:93   graph := make(map[string]Commit)
    refs,        \* run.go:67   refs []vcs.Ref
    graphTips,   \* run.go:140  graphTips map[hash]refname
    missingRefs, \* run.go:139  missingRefs []string
    walkRefs,    \* run.go:165  walkRefs []string, the work queue
    hash,        \* run.go:177  the commit the walk stands on
    visited,     \* run.go:171  visited map[string]bool, as the set of its keys
    fatal,       \* what the run died of (Fatalf), if it did
    hist,        \* what an observer of the run has seen so far
    db2,         \* db.go:28   a VcsDb2 and its sections
    files,       \* the files of the directory of the VcsDb2
    call         \* the call made last on the VcsDb2, and what its caller saw

locals == <<graph, refs, graphTips, missingRefs, walkRefs, hash, visited>>
runvars == <<pc, db, disk, repo, graph, refs, graphTips, missingRefs, walkRefs, hash,
             visited, fatal, hist>>
store == <<db2, files, call>>
vars == <<pc, db, disk, repo, graph, refs, graphTips, missingRefs, walkRefs, hash,
          visited, fatal, hist, db2, files, call>>

\* ------------------------------------------------------------- sequences
Range(s) == {s[i] : i \in DOMAIN s}

NoDup(s) == \A i, j \in DOMAIN s : i /= j => s[i] /= s[j]

\* every sequence that lists the elements of S once
Perms(S) == {s \in [1..Cardinality(S) -> S] : NoDup(s)}

\* every sequence of at most n distinct elements of S
DistinctSeqs(S, n) == UNION {{s \in [1..k -> S] : NoDup(s)} : k \in 0..n}

EmptyMap == [h \in {} |-> 0]

\* ------------------------------------------------------------------ text
\* A string is a sequence of atoms. The atoms are the key prefixes of the file
\* formats ("hash=", "-- ", ...), the separators "," and " ", the decimal
\* numerals, and letters that contain none of these. A file is the sequence of
\* its lines (bufio.Scanner, db.go:391-396), a line a string.
Str(a) == <<a>>

EmptyStr == <<>>

\* fmt.Sprintf("%d", n), and strconv.Atoi on the numerals within NumRange
NumRange == -1..(MaxCommits + 1)

Itoa(n) == Str(ToString(n))

Atoi(s) ==
    IF \E n \in NumRange : Itoa(n) = s
    THEN [ok |-> TRUE, val |-> CHOOSE n \in NumRange : Itoa(n) = s]
    ELSE [ok |-> FALSE, val |-> 0]

\* fmt.Sprintf("%v", b) of a bool
Btoa(b) == IF b THEN Str("true") ELSE Str("false")

\* text[0:n] == prefix, with n = len(prefix)
HasPrefix(text, prefix) ==
    Len(text) >= Len(prefix) /\ SubSeq(text, 1, Len(prefix)) = prefix

\* text[n:]
After(text, prefix) == SubSeq(text, Len(prefix) + 1, Len(text))

\* strings.Join
RECURSIVE Join(_, _)
Join(list, sep) ==
    IF list = <<>> THEN EmptyStr
    ELSE IF Len(list) = 1 THEN list[1]
    ELSE list[1] \o sep \o Join(Tail(list), sep)

\* strings.Split for a separator that is not empty: cut at every occurrence
\* of sep, from the left; a text without sep is one element
RECURSIVE SplitFrom(_, _, _)
SplitFrom(text, sep, cur) ==
    IF text = <<>> THEN <<cur>>
    ELSE IF HasPrefix(text, sep)
         THEN <<cur>> \o SplitFrom(After(text, sep), sep, EmptyStr)
         ELSE SplitFrom(Tail(text), sep, Append(cur, Head(text)))

Split(text, sep) == SplitFrom(text, sep, EmptyStr)

CommaSpace == <<",", " ">>

Space == <<" ">>

\* db.go:498-506  getkvstr: [ok, val]; val is meaningful only if ok
getkvstr(text, prefix) ==
    IF ~HasPrefix(text, prefix)
    THEN [ok |-> FALSE, val |-> EmptyStr]
    ELSE [ok |-> TRUE, val |-> After(text, prefix)]

\* db.go:483-496  getkvstrlist: the empty rest is the nil list
getkvstrlist(text, prefix) ==
    IF ~HasPrefix(text, prefix)
    THEN [ok |-> FALSE, val |-> <<>>]
    ELSE IF After(text, prefix) /= EmptyStr
         THEN [ok |-> TRUE, val |-> Split(After(text, prefix), CommaSpace)]
         ELSE [ok |-> TRUE, val |-> <<>>]

\* db.go:508-517  getkvint: Atoi has stored its value, 0 if it failed,
\* whether the call reports true or false
getkvint(text, prefix) ==
    IF ~HasPrefix(text, prefix)
    THEN [ok |-> FALSE, set |-> FALSE, val |-> 0]
    ELSE [ok |-> Atoi(After(text, prefix)).ok, set |-> TRUE,
          val |-> Atoi(After(text, prefix)).val]

\* db.go:519-533  getkvbool
getkvbool(text, prefix) ==
    IF ~HasPrefix(text, prefix) THEN [ok |-> FALSE, val |-> FALSE]
    ELSE IF After(text, prefix) = Str("true") THEN [ok |-> TRUE, val |-> TRUE]
    ELSE IF After(text, prefix) = Str("false") THEN [ok |-> TRUE, val |-> FALSE]
    ELSE [ok |-> FALSE, val |-> FALSE]

\* ---------------------------------------------------------------- inputs
\* vcs.Ref (src/unnamed/part_001:28)
Ref(h, name) == [Hash |-> h, Refname |-> name]

\* loc.Commit (run.go:16) as GetRepoInfo builds it at run.go:120: children empty.
\* timestamp and author fields play no part in the traversal.
Commit(h, ps) == [hash |-> h, parents |-> ps, children |-> <<>>]

\* The parent lists commit i of a log can carry: earlier commits only.
ParentChoices(i) == DistinctSeqs(1..(i - 1), MaxParents)

\* ... and the lists that name an absent hash as well
CorruptChoices(i) ==
    {ps \in DistinctSeqs((1..(i - 1)) \cup {AbsentHash}, MaxParents) :
        AbsentHash \in Range(ps)}

\* The logs of n commits whose parents are all in the log: line h is commit h.
RECURSIVE ClosedLogs(_)
ClosedLogs(n) ==
    IF n = 0 THEN {<<>>}
    ELSE {Append(g, Commit(n, ps)) : g \in ClosedLogs(n - 1), ps \in ParentChoices(n)}

\* The logs of n commits, one of which names a parent that is not in the log
\* (an inconsistent fetch).
CorruptLogs(n) ==
    UNION {{[g EXCEPT ![c].parents = ps] : g \in ClosedLogs(n), ps \in CorruptChoices(c)}
           : c \in 1..n}

Logs(n) == ClosedLogs(n) \cup CorruptLogs(n)

\* The ref lists GitRefs can return for a repository of n commits: one ref per
\* name (part_001:76-88), each on a fetched commit or on an absent hash.
RefLists(n) ==
    UNION {{[i \in 1..k |-> Ref(hs[i], i)] : hs \in [1..k -> (1..n) \cup {AbsentHash}]}
           : k \in 0..MaxRefs}

\* git rev-list --max-parents=0 --all (part_001:62-65): the commits of the log
\* that have no parents, newest first
RECURSIVE RootsOf(_)
RootsOf(log) ==
    IF log = <<>> THEN <<>>
    ELSE LET c == log[Len(log)]
             rest == RootsOf(SubSeq(log, 1, Len(log) - 1))
         IN  IF Len(c.parents) > 0 THEN rest ELSE <<c.hash>> \o rest

\* What the git commands of a run report: the object count (part_001:95),
\* the refs (part_001:70), the root commits (part_001:62) and the log
\* (part_001:42), whose lines are well formed or not (run.go:100, run.go:116)
Repo(numObjects, rs, log, logOk) ==
    [numObjects |-> numObjects, refs |-> rs, roots |-> RootsOf(log), log |-> log,
     logOk |-> logOk]

\* ------------------------------------------------------------- the VcsDb
\* part_007:73-74  db := &VcsDb{...}: every field at its zero value
NewVcsDb ==
    [numRepoObjects |-> 0, numRepoObjectsDirty |-> FALSE,
     refs |-> <<>>, refsDirty |-> FALSE,
     roots |-> <<>>, rootsDirty |-> FALSE,
     tips |-> <<>>, tipsDirty |-> FALSE,
     graph |-> <<>>, graphDirty |-> FALSE]

\* a file of the database directory: its content, or no file
File(v) == [exists |-> TRUE, content |-> v]

NoFile(zero) == [exists |-> FALSE, content |-> zero]

\* a writable database directory with no file in it. info stands for the
\* ".info" section (db.go:161-169), of which the model keeps graphUpToDate.
EmptyDisk ==
    [writable |-> TRUE,
     repoObjects |-> NoFile(0), refs |-> NoFile(<<>>), roots |-> NoFile(<<>>),
     tips |-> NoFile(<<>>), graph |-> NoFile(<<>>), info |-> NoFile(FALSE)]

\* part_007:122-136  LoadNumRepoObjects
LoadNumRepoObjects(d, dsk) ==
    IF ~dsk.repoObjects.exists
    THEN [d EXCEPT !.numRepoObjectsDirty = TRUE]
    ELSE [d EXCEPT !.numRepoObjects = dsk.repoObjects.content,
                   !.numRepoObjectsDirty = FALSE]

\* part_007:154-178  LoadRefs
LoadRefs(d, dsk) ==
    IF ~dsk.refs.exists
    THEN [d EXCEPT !.refsDirty = TRUE, !.refs = <<>>]
    ELSE [d EXCEPT !.refsDirty = FALSE, !.refs = dsk.refs.content]

\* run.go:59-63  numObjects = GitCountObjects; kept, and dirty, only if it differs
CountObjects(d, numObjects) ==
    IF d.numRepoObjects /= numObjects
    THEN [d EXCEPT !.numRepoObjects = numObjects, !.numRepoObjectsDirty = TRUE]
    ELSE d

\* run.go:69-71  refs = GitRefs; db.refs = refs; db.refsDirty = true
FetchRefs(d, rs) == [d EXCEPT !.refs = rs, !.refsDirty = TRUE]

\* run.go:78-80  roots = GitRootCommits; db.roots = roots; db.rootsDirty = true
FetchRoots(d, roots) == [d EXCEPT !.roots = roots, !.rootsDirty = TRUE]

\* how a run ended in Fatalf: the message, and the hash it names
Fatal(why, h) == [why |-> why, hash |-> h]

NoFatal == Fatal("", NoHash)

\* ------------------------------------------------------------ the VcsDb2
\* the names the sections are persisted under (db.go:123, 155, 208, 252, 354)
HeaderName == Str(".header")

InfoName == Str(".info")

RefsName == Str("refs")

CommitsName == Str("commits")

HashesName == Str("commits.hashes")

CommitsFileName == CommitsName \o Str(".commits")

FileNames == {HeaderName, InfoName, RefsName, CommitsName, HashesName, CommitsFileName}

\* The fault of the file system during a call, if any: open, create or write
\* fails for the file of that name. A write fails either in the deferred Flush
\* (db.go:477-478), which nobody hears of, with nothing in the file, or in a
\* flush that WriteString had to make when the buffer of the bufio.Writer was
\* full, which WriteString reports, with keep lines in the file.
NoFault == [name |-> EmptyStr, kind |-> "none", keep |-> 0, reported |-> FALSE]

Faults ==
    {NoFault}
    \cup [name : FileNames, kind : {"open", "create"}, keep : {0}, reported : {FALSE}]
    \cup [name : FileNames, kind : {"write"}, keep : {0}, reported : {FALSE}]
    \cup [name : FileNames, kind : {"write"}, keep : {1}, reported : {TRUE}]
    \cup [name : {EmptyStr}, kind : {"mkdir"}, keep : {0}, reported : {FALSE}]

Fails(fault, name, kind) == fault.kind = kind /\ fault.name = name

\* the first n lines of a file
Prefix(lines, n) == SubSeq(lines, 1, IF n < Len(lines) THEN n ELSE Len(lines))

\* db.go:376  os.Stat(path) succeeds
FileExists(fs, name) == name \in DOMAIN fs /\ fs[name].exists

\* db.go:385-388  os.Open: the lines of the file, or no lines if it cannot be opened
OpenLines(fs, name, fault) ==
    IF ~FileExists(fs, name) \/ Fails(fault, name, "open")
    THEN [ok |-> FALSE, lines |-> <<>>]
    ELSE [ok |-> TRUE, lines |-> fs[name].content]

\* the directory after name has been given the lines
PutFile(fs, name, lines) ==
    [n \in DOMAIN fs \cup {name} |-> IF n = name THEN File(lines) ELSE fs[n]]

\* ---- the function literals that the Loads hand to doLoadData
\* types.go:5-18  a Commit with the fields that db.go persists; Commit{} is ZeroCommit
CommitRecord(h, timestamp, authorName, authorEmail, ps, cs) ==
    [hash |-> h, timestamp |-> timestamp, authorName |-> authorName,
     authorEmail |-> authorEmail, parents |-> ps, children |-> cs]

ZeroCommit == CommitRecord(EmptyStr, 0, EmptyStr, EmptyStr, <<>>, <<>>)

\* db.go:136-142  the callback of VcsHeader.Load
HeaderLine(h, line) ==
    IF getkvstr(line, Str("repoPath=")).ok
    THEN [err |-> "", st |-> [h EXCEPT !.repoPath = getkvstr(line, Str("repoPath=")).val]]
    ELSE IF getkvstr(line, Str("vcs=")).ok
    THEN [err |-> "", st |-> [h EXCEPT !.vcs = getkvstr(line, Str("vcs=")).val]]
    ELSE [err |-> "invalid", st |-> h]

\* db.go:174-181  the callback of VcsBaseInfo.Load. getkvint stores what Atoi
\* returns before it reports a numeral that is none.
InfoLine(h, line) ==
    LET chain(objs, coms, sig, upd) ==
            LET h1 == IF objs.set THEN [h EXCEPT !.numRepoObjects = objs.val] ELSE h
                h2 == IF coms.set THEN [h1 EXCEPT !.numRepoCommits = coms.val] ELSE h1
            IN  IF objs.ok THEN [err |-> "", st |-> h1]
                ELSE IF coms.ok THEN [err |-> "", st |-> h2]
                ELSE IF sig.ok
                THEN [err |-> "", st |-> [h2 EXCEPT !.refsSignature = sig.val]]
                ELSE IF upd.ok
                THEN [err |-> "", st |-> [h2 EXCEPT !.graphUpToDate = upd.val]]
                ELSE [err |-> "invalid", st |-> h2]
    IN  chain(getkvint(line, Str("numRepoObjects=")),
              getkvint(line, Str("numRepoCommits=")),
              getkvstr(line, Str("refsSignature=")),
              getkvbool(line, Str("graphUpToDate=")))

\* db.go:217-222  the callback of VcsRefs.Load. A hash atom stands for 40
\* bytes: line[:40] is the first atom, line[41:] what follows the separator;
\* slicing a line shorter than that panics.
RefsLine(rs, line) ==
    IF Len(line) < 2 THEN [err |-> "panic", st |-> rs]
    ELSE [err |-> "",
          st |-> Append(rs, [Hash |-> SubSeq(line, 1, 1),
                             Refname |-> SubSeq(line, 3, Len(line))])]

\* db.go:271-277  the callback of LoadBase
CommitsBaseLine(h, line) ==
    IF getkvstr(line, Str("hashFile=")).ok
    THEN [err |-> "", st |-> [h EXCEPT !.hashFile = getkvstr(line, Str("hashFile=")).val]]
    ELSE IF getkvstrlist(line, Str("commitFiles=")).ok
    THEN [err |-> "",
          st |-> [h EXCEPT !.commitFiles = getkvstrlist(line, Str("commitFiles=")).val]]
    ELSE [err |-> "invalid", st |-> h]

\* db.go:300-303  the callback of LoadHashes
HashLine(hashes, line) == [err |-> "", st |-> Append(hashes, line)]

\* db.go:336-343  the key lines of a commit record, stored in commits[i]; a
\* line with none of the keys is invalid
CommitFieldLine(c, line) ==
    LET chain(ts) ==
            LET c1 == IF ts.set THEN [c EXCEPT !.timestamp = ts.val] ELSE c
            IN  IF getkvstr(line, Str("hash=")).ok
                THEN [err |-> "",
                      st |-> [c EXCEPT !.hash = getkvstr(line, Str("hash=")).val]]
                ELSE IF ts.ok THEN [err |-> "", st |-> c1]
                ELSE IF getkvstr(line, Str("authorName=")).ok
                THEN [err |-> "",
                      st |-> [c1 EXCEPT
                                 !.authorName = getkvstr(line, Str("authorName=")).val]]
                ELSE IF getkvstr(line, Str("authorEmail=")).ok
                THEN [err |-> "",
                      st |-> [c1 EXCEPT
                                 !.authorEmail = getkvstr(line, Str("authorEmail=")).val]]
                ELSE IF getkvstrlist(line, Str("parents=")).ok
                THEN [err |-> "",
                      st |-> [c1 EXCEPT
                                 !.parents = getkvstrlist(line, Str("parents=")).val]]
                ELSE IF getkvstrlist(line, Str("children=")).ok
                THEN [err |-> "",
                      st |-> [c1 EXCEPT
                                 !.children = getkvstrlist(line, Str("children=")).val]]
                ELSE [err |-> "invalid", st |-> c1]
    IN  chain(getkvint(line, Str("timestamp=")))

\* db.go:327-345  the callback of LoadCommits, on st = [commits, i]: a marker
\* "-- index" appends a Commit and has to carry the number of commits read
\* before it; then the line, the marker line too, is looked up among the keys
\* of commits[i], which panics if there is no commits[i]
CommitsLine(st, line) ==
    LET stored(st1, field) ==
            [err |-> field.err, st |-> [st1 EXCEPT !.commits[st1.i + 1] = field.st]]
        keys(marker, st1) ==
            IF marker.ok /\ st1.i /= marker.val THEN [err |-> "invalid index", st |-> st1]
            ELSE IF st1.i >= Len(st1.commits) THEN [err |-> "panic", st |-> st1]
            ELSE stored(st1, CommitFieldLine(st1.commits[st1.i + 1], line))
        block(marker) ==
            keys(marker,
                 IF marker.ok
                 THEN [commits |-> Append(st.commits, ZeroCommit), i |-> Len(st.commits)]
                 ELSE st)
    IN  block(getkvint(line, Str("-- ")))

\* the callback of that name
Callback(callback, st, line) ==
    CASE callback = "HeaderLine" -> HeaderLine(st, line)
      [] callback = "InfoLine" -> InfoLine(st, line)
      [] callback = "RefsLine" -> RefsLine(st, line)
      [] callback = "CommitsBaseLine" -> CommitsBaseLine(st, line)
      [] callback = "HashLine" -> HashLine(st, line)
      [] callback = "CommitsLine" -> CommitsLine(st, line)

\* The scanner loop of doLoadData (db.go:391-397): the callback is applied to
\* the lines in order, and to no line after one for which it returns an error.
\* What the callback has stored before it returned the error stays stored.
ScanLines(lines, callback, st0) ==
    LET scan[i \in 0..Len(lines)] ==
            IF i = 0 THEN [err |-> "", st |-> st0]
            ELSE LET prev == scan[i - 1]
                 IN  IF prev.err /= "" THEN prev
                     ELSE Callback(callback, prev.st, lines[i])
    IN  scan[Len(lines)]

\* db.go:382-398  doLoadData: a file that cannot be opened is no error
doLoadData(fs, name, fault, callback, st0) ==
    IF ~OpenLines(fs, name, fault).ok
    THEN [err |-> "", st |-> st0]
    ELSE ScanLines(OpenLines(fs, name, fault).lines, callback, st0)

\* db.go:374-380  doLoadDataRequired: the file has to exist
doLoadDataRequired(fs, name, fault, callback, st0) ==
    IF ~FileExists(fs, name)
    THEN [err |-> "stat", st |-> st0]
    ELSE doLoadData(fs, name, fault, callback, st0)

\* db.go:458-481  doSaveDataLines, doSaveDataWorker: a failed os.Create is
\* returned and leaves the file alone; a failed write is returned if
\* WriteString saw it. wrote names the file if os.Create has truncated it, and
\* failed tells that the create or a write has failed.
doSaveDataLines(fs, name, lines, fault) ==
    IF Fails(fault, name, "create")
    THEN [err |-> "create", files |-> fs, wrote |-> {}, failed |-> TRUE]
    ELSE IF Fails(fault, name, "write")
         THEN [err |-> IF fault.reported THEN "write" ELSE "",
               files |-> PutFile(fs, name, Prefix(lines, fault.keep)), wrote |-> {name},
               failed |-> TRUE]
         ELSE [err |-> "", files |-> PutFile(fs, name, lines), wrote |-> {name},
               failed |-> FALSE]

\* db.go:440-456  doSaveDataN: a failed os.Create is returned, the error of
\* WriteString is assigned and dropped (db.go:452, 455)
doSaveDataN(fs, name, lines, fault) ==
    IF Fails(fault, name, "create")
    THEN [err |-> "create", files |-> fs, wrote |-> {}, failed |-> TRUE]
    ELSE IF Fails(fault, name, "write")
         THEN [err |-> "", files |-> PutFile(fs, name, Prefix(lines, fault.keep)),
               wrote |-> {name}, failed |-> TRUE]
         ELSE [err |-> "", files |-> PutFile(fs, name, lines), wrote |-> {name},
               failed |-> FALSE]

\* db.go:122-124, 154-156, 207-209, 251-253  the sections as they are made
NewVcsHeader == [repoPath |-> EmptyStr, vcs |-> EmptyStr]

NewVcsBaseInfo ==
    [numRepoObjects |-> 0, numRepoCommits |-> 0, refsSignature |-> EmptyStr,
     graphUpToDate |-> FALSE, dirty |-> FALSE]

NewVcsRefs == [refs |-> <<>>, dirty |-> FALSE]

NewVcsCommits ==
    [hashes |-> <<>>, commits |-> <<>>, hashFile |-> HashesName, commitFiles |-> <<>>,
     dirty |-> FALSE, err |-> ""]

\* db.go:17-25  NewVcsDb2
NewVcsDb2 ==
    [hdr |-> NewVcsHeader, info |-> NewVcsBaseInfo, refs |-> NewVcsRefs,
     commits |-> NewVcsCommits]

\* db.go:134-143  VcsHeader.Load
HeaderLoad(h, fs, fault) == doLoadDataRequired(fs, HeaderName, fault, "HeaderLine", h)

\* db.go:146-148  the lines of the header
HeaderLines(h) == <<Str("repoPath=") \o h.repoPath, Str("vcs=") \o h.vcs>>

\* db.go:145-150  VcsHeader.Save
HeaderSave(h, fs, fault) == doSaveDataLines(fs, HeaderName, HeaderLines(h), fault)

\* db.go:173-183  VcsBaseInfo.Load
InfoLoad(h, fs, fault) == doLoadData(fs, InfoName, fault, "InfoLine", h)

\* db.go:188-193  the lines of the base info
InfoLines(h) ==
    <<Str("numRepoObjects=") \o Itoa(h.numRepoObjects),
      Str("numRepoCommits=") \o Itoa(h.numRepoCommits),
      Str("refsSignature=") \o h.refsSignature,
      Str("graphUpToDate=") \o Btoa(h.graphUpToDate)>>

\* db.go:186-194  VcsBaseInfo.Save: dirty is cleared before the write
InfoSave(h, fs, fault) ==
    LET saved == doSaveDataLines(fs, InfoName, InfoLines(h), fault)
    IN  [err |-> saved.err, files |-> saved.files, wrote |-> saved.wrote,
         failed |-> saved.failed, st |-> [h EXCEPT !.dirty = FALSE]]

\* db.go:213-223  VcsRefs.Load
RefsLoad(h, fs, fault) ==
    LET loaded == doLoadData(fs, RefsName, fault, "RefsLine", <<>>)
    IN  [err |-> loaded.err, st |-> [h EXCEPT !.refs = loaded.st, !.dirty = FALSE]]

\* db.go:229  the line of a ref
RefsLines(rs) == [i \in DOMAIN rs |-> rs[i].Hash \o Space \o rs[i].Refname]

\* db.go:226-231  VcsRefs.Save: dirty is cleared before the write
RefsSave(h, fs, fault) ==
    LET saved == doSaveDataN(fs, RefsName, RefsLines(h.refs), fault)
    IN  [err |-> saved.err, files |-> saved.files, wrote |-> saved.wrote,
         failed |-> saved.failed, st |-> [h EXCEPT !.dirty = FALSE]]

\* db.go:268-280  LoadBase
LoadBase(h, fs, fault) ==
    IF h.err /= "" THEN h
    ELSE LET loaded == doLoadData(fs, CommitsName, fault, "CommitsBaseLine", h)
         IN  [loaded.st EXCEPT !.err = loaded.err]

\* db.go:297-306  LoadHashes
LoadHashes(h, fs, fault) ==
    IF h.err /= "" THEN [h EXCEPT !.hashes = <<>>]
    ELSE LET loaded == doLoadData(fs, h.hashFile, fault, "HashLine", <<>>)
         IN  [h EXCEPT !.hashes = loaded.st, !.err = loaded.err]

\* db.go:320-348  LoadCommits: the commitFiles in order, i starting at 0 in
\* each, until one fails
RECURSIVE LoadCommitFiles(_, _, _, _)
LoadCommitFiles(h, fs, fault, names) ==
    IF names = <<>> \/ h.err /= "" THEN h
    ELSE LET loaded == doLoadData(fs, Head(names), fault, "CommitsLine",
                                  [commits |-> h.commits, i |-> 0])
         IN  LoadCommitFiles([h EXCEPT !.commits = loaded.st.commits, !.err = loaded.err],
                             fs, fault, Tail(names))

LoadCommits(h, fs, fault) ==
    LoadCommitFiles([h EXCEPT !.commits = <<>>], fs, fault, h.commitFiles)

\* db.go:255-259  VcsCommits.Load
CommitsLoad(h, fs, fault) ==
    LET loaded == LoadCommits(LoadHashes(LoadBase([h EXCEPT !.dirty = FALSE, !.err = ""],
                                                  fs, fault), fs, fault), fs, fault)
    IN  [err |-> loaded.err, st |-> loaded]

\* db.go:357-363  the lines of commit i, counted from 0
CommitLines(c, i) ==
    <<Str("-- ") \o Itoa(i),
      Str("hash=") \o c.hash,
      Str("timestamp=") \o Itoa(c.timestamp),
      Str("authorName=") \o c.authorName,
      Str("authorEmail=") \o c.authorEmail,
      Str("parents=") \o Join(c.parents, Space),
      Str("children=") \o Join(c.children, Space)>>

RECURSIVE CommitsLines(_, _)
CommitsLines(commits, i) ==
    IF i >= Len(commits) THEN <<>>
    ELSE CommitLines(commits[i + 1], i) \o CommitsLines(commits, i + 1)

\* db.go:351-370  SaveCommits, on [h, files]
SaveCommits(s, fault) ==
    IF s.h.err /= "" THEN s
    ELSE LET saved == doSaveDataN(s.files, CommitsFileName,
                                  CommitsLines(s.h.commits, 0), fault)
         IN  [h |-> [s.h EXCEPT !.commitFiles = <<CommitsFileName>>, !.err = saved.err],
              files |-> saved.files, wrote |-> s.wrote \cup saved.wrote,
              failed |-> s.failed \/ saved.failed]

\* db.go:309-316  SaveHashes
SaveHashes(s, fault) ==
    IF s.h.err /= "" THEN s
    ELSE LET saved == doSaveDataN(s.files, s.h.hashFile, s.h.hashes, fault)
         IN  [h |-> [s.h EXCEPT !.err = saved.err], files |-> saved.files,
              wrote |-> s.wrote \cup saved.wrote,
              failed |-> s.failed \/ saved.failed]

\* db.go:286-289  the lines of the commits abstract
CommitsBaseLines(h) ==
    <<Str("hashFile=") \o h.hashFile,
      Str("commitFiles=") \o Join(h.commitFiles, CommaSpace)>>

\* db.go:283-292  SaveBase
SaveBase(s, fault) ==
    IF s.h.err /= "" THEN s
    ELSE LET saved == doSaveDataLines(s.files, CommitsName, CommitsBaseLines(s.h), fault)
         IN  [h |-> [s.h EXCEPT !.err = saved.err], files |-> saved.files,
              wrote |-> s.wrote \cup saved.wrote,
              failed |-> s.failed \/ saved.failed]

\* db.go:261-265  VcsCommits.Save: dirty is cleared before the writes
CommitsSave(h, fs, fault) ==
    LET saved == SaveBase(SaveHashes(SaveCommits(
                     [h |-> [h EXCEPT !.dirty = FALSE, !.err = ""], files |-> fs,
                      wrote |-> {}, failed |-> FALSE],
                     fault), fault), fault)
    IN  [err |-> saved.h.err, files |-> saved.files, wrote |-> saved.wrote,
         failed |-> saved.failed, st |-> saved.h]

\* db.go:106-118  VcsDb2.Save: the dirty sections in order; what their Save
\* returns is dropped
SaveInfoIfDirty(s, fault) ==
    IF ~s.db.info.dirty THEN s
    ELSE LET saved == InfoSave(s.db.info, s.files, fault)
         IN  [db |-> [s.db EXCEPT !.info = saved.st], files |-> saved.files,
              wrote |-> s.wrote \cup saved.wrote,
              failed |-> s.failed \/ saved.failed]

SaveRefsIfDirty(s, fault) ==
    IF ~s.db.refs.dirty THEN s
    ELSE LET saved == RefsSave(s.db.refs, s.files, fault)
         IN  [db |-> [s.db EXCEPT !.refs = saved.st], files |-> saved.files,
              wrote |-> s.wrote \cup saved.wrote,
              failed |-> s.failed \/ saved.failed]

SaveCommitsIfDirty(s, fault) ==
    IF ~s.db.commits.dirty THEN s
    ELSE LET saved == CommitsSave(s.db.commits, s.files, fault)
         IN  [db |-> [s.db EXCEPT !.commits = saved.st], files |-> saved.files,
              wrote |-> s.wrote \cup saved.wrote,
              failed |-> s.failed \/ saved.failed]

\* a Save that asks no section whether it is dirty
SaveEverySection(d, fs, fault) ==
    LET info == InfoSave(d.info, fs, fault)
        rs == RefsSave(d.refs, info.files, fault)
        commits == CommitsSave(d.commits, rs.files, fault)
    IN  [db |-> [d EXCEPT !.info = info.st, !.refs = rs.st, !.commits = commits.st],
         files |-> commits.files, wrote |-> info.wrote \cup rs.wrote \cup commits.wrote,
         failed |-> info.failed \/ rs.failed \/ commits.failed]

\* a Save that writes the header before the dirty sections
SaveHeaderToo(d, fs, fault) ==
    SaveCommitsIfDirty(SaveRefsIfDirty(SaveInfoIfDirty(
        [db |-> d, files |-> HeaderSave(d.hdr, fs, NoFault).files, wrote |-> {HeaderName},
         failed |-> FALSE], fault), fault), fault)

VcsDb2Save(d, fs, fault) ==
    SaveCommitsIfDirty(SaveRefsIfDirty(SaveInfoIfDirty(
        [db |-> d, files |-> fs, wrote |-> {}, failed |-> FALSE], fault), fault), fault)

\* filepath.Abs (db.go:96): a path that is not rooted is joined to the
\* working directory
Abs(path) == IF HasPrefix(path, Str("/")) THEN path ELSE <<"/", "cwd", "/">> \o path

\* db.go:61-103  OpenDb on the directory dir = [kind, entries], kind being
\* "dir", "file" or "none": the new VcsDb2 with the header loaded, or the
\* directory and the header made, or Fatalf
OpenDb(dir, repoPath, vcs, fault) ==
    LET loaded == HeaderLoad(NewVcsHeader, dir.entries, fault)
        hdr == [repoPath |-> Abs(repoPath), vcs |-> vcs]
        saved == HeaderSave(hdr, dir.entries, fault)
        exits(why) == [fatal |-> why, db |-> [NewVcsDb2 EXCEPT !.hdr = loaded.st],
                       dir |-> dir, wrote |-> {}, failed |-> why = "mkdir"]
    IN  IF dir.kind = "dir"
        THEN IF loaded.err /= "" THEN exits("corrupt")
             ELSE [fatal |-> "", db |-> [NewVcsDb2 EXCEPT !.hdr = loaded.st], dir |-> dir,
                   wrote |-> {},
                   failed |-> FileExists(dir.entries, HeaderName)
                              /\ Fails(fault, HeaderName, "open")]
        ELSE IF vcs = EmptyStr THEN exits("no vcs")
        ELSE IF repoPath = EmptyStr THEN exits("no repo")
        ELSE IF dir.kind = "file" THEN exits("file in the way")
        ELSE IF fault.kind = "mkdir" THEN exits("mkdir")
        ELSE [fatal |-> IF saved.err /= "" THEN "hdr" ELSE "",
              db |-> [NewVcsDb2 EXCEPT !.hdr = hdr],
              dir |-> [kind |-> "dir", entries |-> saved.files], wrote |-> saved.wrote,
              failed |-> saved.failed]

\* in the runs of Command.Run no VcsDb2 is made (part_002:26-30)
StoreUnused ==
    /\ db2 = <<>>
    /\ files = <<>>
    /\ call = <<>>

\* no VcsDb2 is open and nothing is at dbPath
StoreIdle ==
    /\ db2 = NewVcsDb2
    /\ files = [kind |-> "none", entries |-> <<>>]

\* ---------------------------------------------------------- graph builder
\* run.go:147  _, ok := graph[ref]
InGraph(g, h) == h \in DOMAIN g

\* run.go:191-195  hasChild
HasChild(parent, child) == \E i \in DOMAIN parent.children : parent.children[i] = child

\* AddChild that appends to its copy of the parent and does not write it back
AddChildUnsaved(g, parentHash, child) == g

\* AddChild without the hasChild test
AddChildAlways(g, parentHash, child) == [g EXCEPT ![parentHash].children = Append(@, child)]

\* run.go:190-199: append child to the parent's children unless it is there
\* already, and write the parent back to the map
AddChild(g, parentHash, child) ==
    IF HasChild(g[parentHash], child)
    THEN g
    ELSE [g EXCEPT ![parentHash].children = Append(@, child)]

\* run.go:185-200: the loop over commit.parents of the commit at h. It stops at
\* the first parent that is not in the graph (Fatalf, run.go:187), the
\* children added for the parents before it staying in the graph.
RECURSIVE LinkParents(_, _, _)
LinkParents(g, h, ps) ==
    IF ps = <<>> THEN [graph |-> g, absent |-> NoHash]
    ELSE IF ~InGraph(g, Head(ps)) THEN [graph |-> g, absent |-> Head(ps)]
    ELSE LinkParents(AddChild(g, Head(ps), h), h, Tail(ps))

\* run.go:141-154: the refs whose hash is in the graph, as a map hash -> refname
\* (a later ref on the same hash replaces the name)
RECURSIVE MakeGraphTips(_, _, _)
MakeGraphTips(g, rs, acc) ==
    IF rs = <<>> THEN acc
    ELSE LET r == Head(rs)
         IN  IF ~InGraph(g, r.Hash)
             THEN MakeGraphTips(g, Tail(rs), acc)
             ELSE MakeGraphTips(g, Tail(rs),
                      [h \in DOMAIN acc \cup {r.Hash} |->
                          IF h = r.Hash THEN r.Refname ELSE acc[h]])

\* missingRefs that lists a hash once however many refs carry it
RECURSIVE MissingOnce(_, _)
MissingOnce(g, rs) ==
    IF rs = <<>> THEN <<>>
    ELSE LET rest == MissingOnce(g, Tail(rs))
         IN  IF ~InGraph(g, Head(rs).Hash) /\ Head(rs).Hash \notin Range(rest)
             THEN <<Head(rs).Hash>> \o rest
             ELSE rest

\* run.go:147-151: the hashes of the refs that are not in the graph, in ref order
RECURSIVE MakeMissingRefs(_, _)
MakeMissingRefs(g, rs) ==
    IF rs = <<>> THEN <<>>
    ELSE IF ~InGraph(g, Head(rs).Hash)
         THEN <<Head(rs).Hash>> \o MakeMissingRefs(g, Tail(rs))
         ELSE MakeMissingRefs(g, Tail(rs))

\* a queue seeded with one of the graphTips only
SeedOneRef(gt) == IF DOMAIN gt = {} THEN {<<>>} ELSE {<<h>> : h \in DOMAIN gt}

\* run.go:165-168: the orders in which ranging over graphTips can fill walkRefs
SeedOrders(gt) == Perms(DOMAIN gt)

\* a walk that takes no commit for visited
NeverVisited(v, h) == FALSE

\* run.go:204  visited[hash]
IsVisited(v, h) == h \in v

\* a walk that follows the first parent and queues no other
FollowFirstParent(commit, queue) == [hash |-> commit.parents[1], walkRefs |-> queue]

\* run.go:217-220: the walk goes on at the first parent, the other parents
\* go to the back of the queue
FollowParents(commit, queue) ==
    [hash |-> commit.parents[1], walkRefs |-> queue \o Tail(commit.parents)]

\* tips that keep every ref of graphTips
AllGraphTips(g, gt) == DOMAIN gt

\* run.go:232-237: the graphTips whose commit has no children
TipSet(g, gt) == {r \in DOMAIN gt : Len(g[r].children) = 0}

\* run.go:136-161  partition the refs into graphTips and missingRefs
PartitionRefs ==
    /\ UNCHANGED store
    /\ pc = "refs"
    /\ graphTips' = MakeGraphTips(graph, refs, EmptyMap)
    /\ missingRefs' = MakeMissingRefs(graph, refs)
    /\ pc' = "seed"
    /\ UNCHANGED <<db, disk, repo, graph, refs, walkRefs, hash, visited, fatal, hist>>

\* run.go:165-172  seed the queue from graphTips, in the map's iteration order
\* (any order), with nothing visited
SeedQueue ==
    /\ UNCHANGED store
    /\ pc = "seed"
    /\ \E order \in SeedOrders(graphTips) : walkRefs' = order
    /\ visited' = {}
    /\ pc' = "loop"
    /\ UNCHANGED <<db, disk, repo, graph, refs, graphTips, missingRefs, hash, fatal, hist>>

\* run.go:173-178  take the head of the queue
PopRef ==
    /\ UNCHANGED store
    /\ pc = "loop"
    /\ Len(walkRefs) > 0
    /\ hash' = Head(walkRefs)
    /\ walkRefs' = Tail(walkRefs)
    /\ pc' = "walk"
    /\ UNCHANGED <<db, disk, repo, graph, refs, graphTips, missingRefs, visited, fatal, hist>>

\* run.go:181-221  one turn of the walk along the parent chain
WalkStep ==
    /\ UNCHANGED store
    /\ pc = "walk"
    /\ LET commit == graph[hash]
           linked == LinkParents(graph, hash, commit.parents)
       IN  /\ graph' = linked.graph
           /\ IF linked.absent /= NoHash
              THEN \* run.go:187  Fatalf: the process ends
                   /\ fatal' = Fatal("not in graph", linked.absent)
                   /\ pc' = "fatal"
                   /\ UNCHANGED <<hash, visited, walkRefs>>
              ELSE IF IsVisited(visited, hash)
              THEN \* run.go:204-206
                   /\ pc' = "loop"
                   /\ hash' = NoHash
                   /\ UNCHANGED <<visited, walkRefs, fatal>>
              ELSE /\ visited' = visited \cup {hash}
                   /\ IF Len(commit.parents) = 0
                      THEN \* run.go:211-213
                           /\ pc' = "loop"
                           /\ hash' = NoHash
                           /\ UNCHANGED <<walkRefs, fatal>>
                      ELSE \* run.go:217-220
                           /\ hash' = FollowParents(commit, walkRefs).hash
                           /\ walkRefs' = FollowParents(commit, walkRefs).walkRefs
                           /\ pc' = "walk"
                           /\ UNCHANGED fatal
    /\ UNCHANGED <<db, disk, repo, refs, graphTips, missingRefs, hist>>

\* run.go:224-251  the queue is empty: keep the graph, recompute the tips (in
\* the map's iteration order) and report the commits not visited
Finish ==
    /\ UNCHANGED store
    /\ pc = "loop"
    /\ Len(walkRefs) = 0
    /\ \E order \in Perms(TipSet(graph, graphTips)) :
          db' = [db EXCEPT !.graph = graph, !.graphDirty = TRUE,
                           !.tips = order, !.tipsDirty = TRUE]
    /\ pc' = "built"
    /\ hist' = IF hist.pass = 1
               THEN [hist EXCEPT !.children = [h \in DOMAIN graph |-> graph[h].children],
                                 !.visited = visited]
               ELSE hist
    /\ UNCHANGED <<disk, repo, graph, refs, graphTips, missingRefs, walkRefs, hash,
                   visited, fatal>>

\* The child-derivation traversal (run.go:163-222) started again on the graph
\* the first traversal annotated: the queue is seeded anew, nothing is visited.
TraverseAgain ==
    /\ UNCHANGED store
    /\ pc = "built"
    /\ hist.pass = 1
    /\ hist' = [hist EXCEPT !.pass = 2]
    /\ pc' = "seed"
    /\ UNCHANGED <<db, disk, repo, graph, refs, graphTips, missingRefs, walkRefs,
                   hash, visited, fatal>>

\* what an observer has seen of a run that has not started yet
\* pass, children, visited: the traversal of the graph; run: the number of
\* the run; logFetched: the calls of GitLogAll in this run; killed: where the
\* run before this one was when its process ended
NoHist ==
    [pass |-> 1, children |-> <<>>, visited |-> {}, run |-> 1, logFetched |-> 0,
     killed |-> "no"]

\* GetRepoInfo at run.go:136, on a fresh database, for every log and ref list
\* within the bounds: the graph holds the commits of the log (run.go:93-122)
Init ==
    /\ pc = "refs"
    /\ \E n \in 0..MaxCommits :
          \E log \in Logs(n), rs \in RefLists(n) :
             /\ repo = Repo(1, rs, log, TRUE)
             /\ graph = log
             /\ refs = rs
             /\ db = FetchRoots(FetchRefs(CountObjects(
                        LoadRefs(LoadNumRepoObjects(NewVcsDb, EmptyDisk), EmptyDisk),
                        1), rs), RootsOf(log))
    /\ disk = EmptyDisk
    /\ graphTips = EmptyMap
    /\ missingRefs = <<>>
    /\ walkRefs = <<>>
    /\ hash = NoHash
    /\ visited = {}
    /\ fatal = NoFatal
    /\ hist = [NoHist EXCEPT !.logFetched = 1]
    /\ StoreUnused

Next ==
    \/ PartitionRefs
    \/ SeedQueue
    \/ PopRef
    \/ WalkStep
    \/ Finish
    \/ TraverseAgain

Spec == Init /\ [][Next]_vars

\* --------------------------------------------- the traversal to its end
\* The parent lists that close a cycle at commit c of the log g: its parents
\* and, before or after them, c itself or a commit that comes after it
CycleChoices(g, c) ==
    LET ps == g[c].parents
        kept == IF Len(ps) < MaxParents THEN ps ELSE SubSeq(ps, 1, MaxParents - 1)
    IN  {<<p>> \o kept : p \in c..Len(g)} \cup {Append(kept, p) : p \in c..Len(g)}

\* The logs of n commits, all parents in the log, in which the parents of
\* one commit lead back to it or forward
CyclicLogs(n) ==
    UNION {{[g EXCEPT ![c].parents = ps] : ps \in CycleChoices(g, c)}
           : g \in ClosedLogs(n), c \in 1..n}

\* The ref lists that differ in the commits the queue is seeded with (the
\* queue takes the keys of graphTips, in any order): refs on commits of the
\* log, in the order of the hashes
SeedRefs(n) ==
    {rs \in RefLists(n) :
        /\ \A i \in DOMAIN rs : rs[i].Hash /= AbsentHash
        /\ \A i, j \in DOMAIN rs : i < j => rs[i].Hash < rs[j].Hash}

\* run.go:122-136  the graph has been made of the log, the refs are to be
\* partitioned
WalkInit ==
    /\ StoreUnused
    /\ pc = "refs"
    /\ db = NewVcsDb
    /\ disk = EmptyDisk
    /\ \E n \in 0..MaxCommits : \E log \in ClosedLogs(n) \cup CyclicLogs(n) :
          \E rs \in SeedRefs(n) :
              /\ repo = Repo(1, rs, log, TRUE)
              /\ graph = log
              /\ refs = rs
    /\ graphTips = EmptyMap
    /\ missingRefs = <<>>
    /\ walkRefs = <<>>
    /\ hash = NoHash
    /\ visited = {}
    /\ fatal = NoFatal
    /\ hist = NoHist

WalkNext ==
    \/ PartitionRefs
    \/ SeedQueue
    \/ PopRef
    \/ WalkStep
    \/ Finish

\* GetRepoInfo is one thread of straight-line code and loops: while it can
\* take a step it takes one
SpecWalk == WalkInit /\ [][WalkNext]_vars /\ WF_vars(WalkNext)

\* ------------------------------------------------------------ a whole run
\* Command.Run (src/unnamed/part_002:26-30): Load, Analyze, Save

\* part_007:73-89  Load: a new VcsDb, and the object count of the last run
Load ==
    /\ UNCHANGED store
    /\ pc = "load"
    /\ db' = LoadNumRepoObjects(NewVcsDb, disk)
    /\ pc' = "analyze"
    /\ UNCHANGED <<disk, repo, locals, fatal, hist>>

\* run.go:33-41  Analyze starts by loading the refs of the last run
AnalyzeLoadRefs ==
    /\ UNCHANGED store
    /\ pc = "analyze"
    /\ db' = LoadRefs(db, disk)
    /\ pc' = "count"
    /\ UNCHANGED <<disk, repo, locals, fatal, hist>>

\* run.go:56-64  GetRepoInfo: count the objects of the repository
GetNumObjects ==
    /\ UNCHANGED store
    /\ pc = "count"
    /\ db' = CountObjects(db, repo.numObjects)
    /\ pc' = "gitrefs"
    /\ UNCHANGED <<disk, repo, locals, fatal, hist>>

\* a GetRepoInfo that writes the refs file as soon as it has fetched the refs
GetRefsAndSave ==
    /\ UNCHANGED store
    /\ pc = "gitrefs"
    /\ refs' = repo.refs
    /\ db' = [FetchRefs(db, repo.refs) EXCEPT !.refsDirty = ~disk.writable]
    /\ disk' = IF disk.writable THEN [disk EXCEPT !.refs = File(repo.refs)] ELSE disk
    /\ pc' = "roots"
    /\ UNCHANGED <<repo, graph, graphTips, missingRefs, walkRefs, hash, visited,
                   fatal, hist>>

\* run.go:66-72  fetch the refs
GetRefs ==
    /\ UNCHANGED store
    /\ pc = "gitrefs"
    /\ refs' = repo.refs
    /\ db' = FetchRefs(db, repo.refs)
    /\ pc' = "roots"
    /\ UNCHANGED <<disk, repo, graph, graphTips, missingRefs, walkRefs, hash, visited,
                   fatal, hist>>

\* run.go:74-81  fetch the root commits
GetRoots ==
    /\ UNCHANGED store
    /\ pc = "roots"
    /\ db' = FetchRoots(db, repo.roots)
    /\ pc' = "log"
    /\ UNCHANGED <<disk, repo, locals, fatal, hist>>

\* run.go:83-87  fetch every commit with its parents: GitLogAll
GetLog ==
    /\ UNCHANGED store
    /\ pc = "log"
    /\ hist' = [hist EXCEPT !.logFetched = @ + 1]
    /\ pc' = "parse"
    /\ UNCHANGED <<db, disk, repo, locals, fatal>>

\* run.go:89-122  put the commits of the log in a new graph; a line that lacks
\* a marker or has no numeric timestamp ends the run (run.go:101, run.go:117)
MakeGraph ==
    /\ UNCHANGED store
    /\ pc = "parse"
    /\ IF repo.logOk
       THEN /\ graph' = repo.log
            /\ pc' = "refs"
            /\ UNCHANGED fatal
       ELSE /\ fatal' = Fatal("bad log", NoHash)
            /\ pc' = "fatal"
            /\ UNCHANGED graph
    /\ UNCHANGED <<db, disk, repo, refs, graphTips, missingRefs, walkRefs, hash, visited,
                   hist>>

\* run.go:45-47  FetchChangeStats and FetchDiffs: they fill db.nonmergeStat,
\* which no file keeps, from the output of git log per commit, and end the run
\* on a line they do not understand (fetch.go:121, fetch.go:136, fetch.go:149)
FetchChangeStats ==
    /\ UNCHANGED store
    /\ pc = "built"
    /\ \/ pc' = "save" /\ UNCHANGED fatal
       \/ pc' = "fatal" /\ fatal' = Fatal("stats", NoHash)
    /\ UNCHANGED <<db, disk, repo, locals, hist>>

\* part_007:138-150  SaveNumRepoObjects, if dirty (part_007:98-100)
SaveNumRepoObjects ==
    /\ UNCHANGED store
    /\ pc = "save"
    /\ IF db.numRepoObjectsDirty /\ disk.writable
       THEN /\ disk' = [disk EXCEPT !.repoObjects = File(db.numRepoObjects)]
            /\ db' = [db EXCEPT !.numRepoObjectsDirty = FALSE]
       ELSE UNCHANGED <<db, disk>>
    /\ pc' = "saverefs"
    /\ UNCHANGED <<repo, locals, fatal, hist>>

\* part_007:180-203  SaveRefs, if dirty (part_007:101-103)
SaveRefs ==
    /\ UNCHANGED store
    /\ pc = "saverefs"
    /\ IF db.refsDirty /\ disk.writable
       THEN /\ disk' = [disk EXCEPT !.refs = File(db.refs)]
            /\ db' = [db EXCEPT !.refsDirty = FALSE]
       ELSE UNCHANGED <<db, disk>>
    /\ pc' = "saveroots"
    /\ UNCHANGED <<repo, locals, fatal, hist>>

\* part_007:231-256  SaveRoots, if dirty (part_007:104-106)
SaveRoots ==
    /\ UNCHANGED store
    /\ pc = "saveroots"
    /\ IF db.rootsDirty /\ disk.writable
       THEN /\ disk' = [disk EXCEPT !.roots = File(db.roots)]
            /\ db' = [db EXCEPT !.rootsDirty = FALSE]
       ELSE UNCHANGED <<db, disk>>
    /\ pc' = "savetips"
    /\ UNCHANGED <<repo, locals, fatal, hist>>

\* part_007:282-305  SaveTips, if dirty (part_007:107-109)
SaveTips ==
    /\ UNCHANGED store
    /\ pc = "savetips"
    /\ IF db.tipsDirty /\ disk.writable
       THEN /\ disk' = [disk EXCEPT !.tips = File(db.tips)]
            /\ db' = [db EXCEPT !.tipsDirty = FALSE]
       ELSE UNCHANGED <<db, disk>>
    /\ pc' = "savegraph"
    /\ UNCHANGED <<repo, locals, fatal, hist>>

\* part_007:392-447  SaveGraph, if dirty (part_007:115-117); SaveOneGraph
\* clears tipsDirty when it has written the file (part_007:445)
SaveGraph ==
    /\ UNCHANGED store
    /\ pc = "savegraph"
    /\ IF db.graphDirty /\ disk.writable
       THEN /\ disk' = [disk EXCEPT !.graph = File(db.graph)]
            /\ db' = [db EXCEPT !.graphDirty = FALSE, !.tipsDirty = FALSE]
       ELSE UNCHANGED <<db, disk>>
    /\ pc' = "exit"
    /\ UNCHANGED <<repo, locals, fatal, hist>>

\* the positions between the fetch of the log and the end of the traversal
RebuildPcs == {"parse", "refs", "seed", "loop", "walk"}

\* The process ends, by itself (exit, Fatalf) or killed where it stands, and
\* the command is run again on the same repository and database directory.
NextRun ==
    /\ UNCHANGED store
    /\ hist.run < MaxRuns
    /\ hist' = [NoHist EXCEPT
                   !.run = hist.run + 1,
                   !.killed = IF pc \in RebuildPcs
                                 \/ (pc = "fatal" /\ fatal.why \in {"bad log", "not in graph"})
                              THEN "rebuild" ELSE "other"]
    /\ pc' = "load"
    /\ db' = NewVcsDb
    /\ graph' = <<>>
    /\ refs' = <<>>
    /\ graphTips' = EmptyMap
    /\ missingRefs' = <<>>
    /\ walkRefs' = <<>>
    /\ hash' = NoHash
    /\ visited' = {}
    /\ fatal' = NoFatal
    /\ UNCHANGED <<disk, repo>>

\* the logs of the runs: one or two commits
RunLogs == Logs(1) \cup ClosedLogs(2)

\* What an earlier run can have left of the refs: nothing, the refs of today,
\* or other refs
StoredRefs(rs) == {NoFile(<<>>), File(rs), File(<<>>), File(<<Ref(1, 1)>>)}

\* a run on a database directory that earlier runs have written
RunInit ==
    /\ pc = "load"
    /\ \E log \in RunLogs, numObjects \in 1..MaxObjects, logOk \in BOOLEAN :
          \E rs \in RefLists(Len(log)) :
             /\ repo = Repo(numObjects, rs, log, logOk)
             /\ \E count \in {NoFile(0)} \cup {File(k) : k \in 1..MaxObjects},
                   stored \in StoredRefs(rs),
                   info \in {NoFile(FALSE), File(FALSE), File(TRUE)},
                   writable \in BOOLEAN :
                   disk = [EmptyDisk EXCEPT !.writable = writable, !.repoObjects = count,
                                            !.refs = stored, !.info = info]
    /\ db = NewVcsDb
    /\ graph = <<>>
    /\ refs = <<>>
    /\ graphTips = EmptyMap
    /\ missingRefs = <<>>
    /\ walkRefs = <<>>
    /\ hash = NoHash
    /\ visited = {}
    /\ fatal = NoFatal
    /\ hist = NoHist
    /\ StoreUnused

RunNext ==
    \/ Load
    \/ AnalyzeLoadRefs
    \/ GetNumObjects
    \/ GetRefs
    \/ GetRoots
    \/ GetLog
    \/ MakeGraph
    \/ PartitionRefs
    \/ SeedQueue
    \/ PopRef
    \/ WalkStep
    \/ Finish
    \/ FetchChangeStats
    \/ SaveNumRepoObjects
    \/ SaveRefs
    \/ SaveRoots
    \/ SaveTips
    \/ SaveGraph
    \/ NextRun

SpecRun == RunInit /\ [][RunNext]_vars

\* ------------------------------------------------- the VcsDb2 in use
\* What a caller in package loc passes to OpenDb and stores in the sections
\* before it marks them dirty.
RepoPaths == {EmptyStr, <<"/", "r1">>, <<"r2">>}

VcsNames == {EmptyStr, Str("git"), Str("hg")}

InfoChoice ==
    [NewVcsBaseInfo EXCEPT !.numRepoObjects = 1, !.numRepoCommits = 1,
                           !.refsSignature = Str("sig"), !.graphUpToDate = TRUE,
                           !.dirty = TRUE]

InfoChoices == {InfoChoice}

DbRef(h, name) == [Hash |-> Str(h), Refname |-> Str(name)]

RefsChoices == {<<DbRef("h1", "refs/heads/master")>>}

\* a root, its child, and the merge of the two
DbCommits ==
    <<CommitRecord(Str("h1"), 1, Str("A"), Str("a@x"), <<>>, <<Str("h2"), Str("h3")>>),
      CommitRecord(Str("h2"), 2, Str("B"), Str("b@x"), <<Str("h1")>>, <<Str("h3")>>),
      CommitRecord(Str("h3"), 3, Str("A"), Str("a@x"), <<Str("h1"), Str("h2")>>, <<>>)>>

CommitsChoices == {DbCommits}

Hashes(cs) == [i \in DOMAIN cs |-> cs[i].hash]

\* the flags of the sections
Dirty(d) == [info |-> d.info.dirty, refs |-> d.refs.dirty, commits |-> d.commits.dirty]

Calls == {"InfoLoad", "RefsLoad", "CommitsLoad", "InfoSave", "RefsSave", "CommitsSave",
          "Save"}

\* the faults that can hit a call that opens, or creates and writes, these files
LoadFaults(names) == {f \in Faults : f = NoFault \/ (f.name \in names /\ f.kind = "open")}

SaveFaults(names) ==
    {f \in Faults : f = NoFault \/ (f.name \in names /\ f.kind \in {"create", "write"})}

CommitsNames == {CommitsName, HashesName, CommitsFileName}

\* the fault if it has struck
Struck(failed, fault) == IF failed THEN fault ELSE NoFault

\* os.Open has failed for one of the files that a Load opens
OpenFailed(fault, names) ==
    fault.kind = "open" /\ fault.name \in names /\ FileExists(files.entries, fault.name)

\* What the caller of the last operation saw, with what held when it began
\* and the fault that struck, if one did:
\* state is "closed" before any OpenDb, "open" while a process holds db2 and
\* "fatal" once log.Fatalf or a panic has ended the process.
Call(state, op, err, fault, d, wrote, arg) ==
    [state |-> state, op |-> op, err |-> err, fault |-> fault, was |-> d,
     wrote |-> wrote, arg |-> arg, dir |-> files,
     procs |-> call.procs + (IF op = "OpenDb" THEN 1 ELSE 0),
     calls |-> call.calls + (IF op \in Calls THEN 1 ELSE 0)]

NoArg == [repoPath |-> EmptyStr, vcs |-> EmptyStr]

\* The faults that can hit OpenDb: it opens the header of a directory that
\* exists (db.go:72), and makes the directory and creates and writes the
\* header where nothing is (db.go:92-99).
OpenDbFaults(kind) ==
    {f \in Faults :
        \/ f = NoFault
        \/ kind = "dir" /\ f.name = HeaderName /\ f.kind = "open"
        \/ kind = "none" /\ f.name = HeaderName /\ f.kind \in {"create", "write"}
        \/ kind = "none" /\ f.kind = "mkdir"}

\* a process starts and calls OpenDb (db.go:61-103)
CallOpenDb ==
    /\ UNCHANGED runvars
    /\ call.procs < MaxProcs
    /\ \E repoPath \in RepoPaths, vcs \in VcsNames, fault \in OpenDbFaults(files.kind) :
          LET opened == OpenDb(files, repoPath, vcs, fault)
          IN  /\ db2' = opened.db
              /\ files' = opened.dir
              /\ call' = Call(IF opened.fatal = "" THEN "open" ELSE "fatal", "OpenDb",
                              opened.fatal, Struck(opened.failed, fault), NewVcsDb2,
                              opened.wrote,
                              [repoPath |-> repoPath, vcs |-> vcs])

\* the VcsDb2 d with data stored in these sections, and these marked dirty
Edited(d, sections, info, rs, cs) ==
    [d EXCEPT
        !.info = IF "info" \in sections THEN info ELSE @,
        !.refs = IF "refs" \in sections THEN [refs |-> rs, dirty |-> TRUE] ELSE @,
        !.commits = IF "commits" \in sections
                    THEN [@ EXCEPT !.commits = cs, !.hashes = Hashes(cs), !.dirty = TRUE]
                    ELSE @]

\* A process that has opened the database stores data in some of the sections
\* and marks those dirty, before it calls Load or Save.
Edit ==
    /\ UNCHANGED runvars
    /\ call.state = "open"
    /\ call.op = "OpenDb"
    /\ \E sections \in (SUBSET {"info", "refs", "commits"}) \ {{}},
          info \in InfoChoices, rs \in RefsChoices, cs \in CommitsChoices :
          /\ "info" \notin sections => info = InfoChoice
          /\ "refs" \notin sections => rs = <<DbRef("h1", "refs/heads/master")>>
          /\ "commits" \notin sections => cs = DbCommits
          /\ db2' = Edited(db2, sections, info, rs, cs)
          /\ call' = Call("open", "Edit", "", NoFault, db2, {}, NoArg)
    /\ UNCHANGED files

\* the state of the process after a call that returned err: a panic ends it
After_(err) == IF err = "panic" THEN "fatal" ELSE "open"

\* db.info.Load(db)
CallInfoLoad ==
    /\ UNCHANGED runvars
    /\ call.state = "open"
    /\ call.calls < MaxCalls
    /\ \E fault \in LoadFaults({InfoName}) :
          LET loaded == InfoLoad(db2.info, files.entries, fault)
          IN  /\ db2' = [db2 EXCEPT !.info = loaded.st]
              /\ call' = Call(After_(loaded.err), "InfoLoad", loaded.err,
                              Struck(OpenFailed(fault, {InfoName}), fault), db2, {}, NoArg)
    /\ UNCHANGED files

\* db.refs.Load(db)
CallRefsLoad ==
    /\ UNCHANGED runvars
    /\ call.state = "open"
    /\ call.calls < MaxCalls
    /\ \E fault \in LoadFaults({RefsName}) :
          LET loaded == RefsLoad(db2.refs, files.entries, fault)
          IN  /\ db2' = [db2 EXCEPT !.refs = loaded.st]
              /\ call' = Call(After_(loaded.err), "RefsLoad", loaded.err,
                              Struck(OpenFailed(fault, {RefsName}), fault), db2, {}, NoArg)
    /\ UNCHANGED files

\* db.commits.Load(db)
CallCommitsLoad ==
    /\ UNCHANGED runvars
    /\ call.state = "open"
    /\ call.calls < MaxCalls
    /\ \E fault \in LoadFaults(CommitsNames) :
          LET loaded == CommitsLoad(db2.commits, files.entries, fault)
              base == LoadBase([db2.commits EXCEPT !.err = ""], files.entries, fault)
              opened == IF base.err /= "" THEN {CommitsName}
                        ELSE {CommitsName, base.hashFile} \cup Range(base.commitFiles)
          IN  /\ db2' = [db2 EXCEPT !.commits = loaded.st]
              /\ call' = Call(After_(loaded.err), "CommitsLoad", loaded.err,
                              Struck(OpenFailed(fault, opened), fault), db2, {}, NoArg)
    /\ UNCHANGED files

\* db.info.Save(db)
CallInfoSave ==
    /\ UNCHANGED runvars
    /\ call.state = "open"
    /\ call.calls < MaxCalls
    /\ \E fault \in SaveFaults({InfoName}) :
          LET saved == InfoSave(db2.info, files.entries, fault)
          IN  /\ db2' = [db2 EXCEPT !.info = saved.st]
              /\ files' = [files EXCEPT !.entries = saved.files]
              /\ call' = Call("open", "InfoSave", saved.err, Struck(saved.failed, fault),
                              db2, saved.wrote, NoArg)

\* db.refs.Save(db)
CallRefsSave ==
    /\ UNCHANGED runvars
    /\ call.state = "open"
    /\ call.calls < MaxCalls
    /\ \E fault \in SaveFaults({RefsName}) :
          LET saved == RefsSave(db2.refs, files.entries, fault)
          IN  /\ db2' = [db2 EXCEPT !.refs = saved.st]
              /\ files' = [files EXCEPT !.entries = saved.files]
              /\ call' = Call("open", "RefsSave", saved.err, Struck(saved.failed, fault),
                              db2, saved.wrote, NoArg)

\* db.commits.Save(db)
CallCommitsSave ==
    /\ UNCHANGED runvars
    /\ call.state = "open"
    /\ call.calls < MaxCalls
    /\ \E fault \in SaveFaults(CommitsNames) :
          LET saved == CommitsSave(db2.commits, files.entries, fault)
          IN  /\ db2' = [db2 EXCEPT !.commits = saved.st]
              /\ files' = [files EXCEPT !.entries = saved.files]
              /\ call' = Call("open", "CommitsSave", saved.err,
                              Struck(saved.failed, fault), db2, saved.wrote, NoArg)

\* the files of the sections that Save finds dirty (db.go:107-117)
DirtyNames(d) ==
    (IF d.info.dirty THEN {InfoName} ELSE {})
    \cup (IF d.refs.dirty THEN {RefsName} ELSE {})
    \cup (IF d.commits.dirty THEN CommitsNames ELSE {})

\* db.Save() (db.go:106-118), which returns nothing
CallSave ==
    /\ UNCHANGED runvars
    /\ call.state = "open"
    /\ call.calls < MaxSaves
    /\ \E fault \in SaveFaults(DirtyNames(db2)) :
          LET saved == VcsDb2Save(db2, files.entries, fault)
          IN  /\ db2' = saved.db
              /\ files' = [files EXCEPT !.entries = saved.files]
              /\ call' = Call("open", "Save", "", Struck(saved.failed, fault), db2,
                              saved.wrote, NoArg)

\* no run of Command.Run goes on, and db.graph is g
RunIdle(g) ==
    /\ pc = "db"
    /\ repo = Repo(1, <<>>, <<>>, TRUE)
    /\ db = NewVcsDb
    /\ disk = EmptyDisk
    /\ graph = g
    /\ refs = <<>>
    /\ graphTips = EmptyMap
    /\ missingRefs = <<>>
    /\ walkRefs = <<>>
    /\ hash = NoHash
    /\ visited = {}
    /\ fatal = NoFatal
    /\ hist = NoHist

RunUnused == RunIdle(<<>>)

\* Nothing is at dbPath, or a file is in the way.
DbInit ==
    /\ RunUnused
    /\ db2 = NewVcsDb2
    /\ files \in {[kind |-> k, entries |-> <<>>] : k \in {"none", "file"}}
    /\ call = [state |-> "closed", op |-> "", err |-> "", fault |-> NoFault,
               was |-> NewVcsDb2, wrote |-> {}, arg |-> NoArg,
               dir |-> [kind |-> "none", entries |-> <<>>], procs |-> 0, calls |-> 0]

DbNext ==
    \/ CallOpenDb
    \/ Edit
    \/ CallSave

SpecDb == DbInit /\ [][DbNext]_vars

\* A process has made the database of /r1 with OpenDb and goes on to load and
\* save single sections.
OpenedDir ==
    OpenDb([kind |-> "none", entries |-> <<>>], <<"/", "r1">>, Str("git"), NoFault)

SectionInit ==
    /\ RunUnused
    /\ db2 = OpenedDir.db
    /\ files = OpenedDir.dir
    /\ call = [state |-> "open", op |-> "OpenDb", err |-> "", fault |-> NoFault,
               was |-> NewVcsDb2, wrote |-> {HeaderName},
               arg |-> [repoPath |-> <<"/", "r1">>, vcs |-> Str("git")],
               dir |-> [kind |-> "none", entries |-> <<>>], procs |-> 1, calls |-> 0]

SectionNext ==
    \/ Edit
    \/ CallInfoLoad
    \/ CallRefsLoad
    \/ CallCommitsLoad
    \/ CallInfoSave
    \/ CallRefsSave
    \/ CallCommitsSave

SpecSection == SectionInit /\ [][SectionNext]_vars

\* ------------------------------------------------ VcsDb2.Save by section
\* db.go:106-118 step by step: call holds the position in the Save (pc, and
\* i, the section in hand), the number of Saves called, the fault that can
\* strike this Save and those that struck the Saves before, the sections this
\* Save has written files of, in order, and the files it found.

\* a Save that turns to the refs before the info
RefsBeforeInfo == <<"refs", "info", "commits">>

\* db.go:107, 111, 115  the order in which Save turns to the sections
SaveOrder == <<"info", "refs", "commits">>

\* a Save that saves the section in hand whether it is dirty or not
SaveAlways(section, s, fault) ==
    LET d == [s.db EXCEPT !.info.dirty = TRUE, !.refs.dirty = TRUE, !.commits.dirty = TRUE]
        saved == CASE section = "info" -> SaveInfoIfDirty([s EXCEPT !.db = d], fault)
                   [] section = "refs" -> SaveRefsIfDirty([s EXCEPT !.db = d], fault)
                   [] section = "commits" -> SaveCommitsIfDirty([s EXCEPT !.db = d], fault)
    IN  [saved EXCEPT !.db = [s.db EXCEPT ![section] = saved.db[section]]]

\* db.go:107-109, 111-113, 115-117
SaveIfDirty(section, s, fault) ==
    CASE section = "info" -> SaveInfoIfDirty(s, fault)
      [] section = "refs" -> SaveRefsIfDirty(s, fault)
      [] section = "commits" -> SaveCommitsIfDirty(s, fault)

\* db.go:106  Save is called
BeginSave ==
    /\ UNCHANGED <<runvars, db2, files>>
    /\ call.pc = "open"
    /\ call.saves < MaxSaves + 1
    /\ \E fault \in SaveFaults(DirtyNames(db2)) :
          call' = [call EXCEPT !.pc = "save", !.i = 1, !.saves = @ + 1, !.fault = fault,
                               !.struck = FALSE, !.log = <<>>, !.dir = files]

\* db.go:107-117  the section in hand, if it is dirty
SaveSection ==
    /\ UNCHANGED runvars
    /\ call.pc = "save"
    /\ call.i <= Len(SaveOrder)
    /\ LET section == SaveOrder[call.i]
           saved == SaveIfDirty(section,
                        [db |-> db2, files |-> files.entries, wrote |-> {}, failed |-> FALSE],
                        call.fault)
       IN  /\ db2' = saved.db
           /\ files' = [files EXCEPT !.entries = saved.files]
           /\ call' = [call EXCEPT
                           !.i = @ + 1,
                           !.struck = @ \/ saved.failed,
                           !.log = IF saved.wrote = {} THEN @ ELSE Append(@, section)]

\* db.go:118  Save returns
EndSave ==
    /\ UNCHANGED <<runvars, db2, files>>
    /\ call.pc = "save"
    /\ call.i > Len(SaveOrder)
    /\ call' = [call EXCEPT !.pc = "open", !.faultFree = Append(@, ~call.struck)]

\* a process has made the database of /r1 with OpenDb and stored data in
\* some of the sections
SavesInit ==
    /\ RunUnused
    /\ \E sections \in SUBSET {"info", "refs", "commits"} :
          db2 = Edited(OpenedDir.db, sections, InfoChoice,
                       <<DbRef("h1", "refs/heads/master")>>, DbCommits)
    /\ files = OpenedDir.dir
    /\ call = [pc |-> "open", i |-> 0, saves |-> 0, fault |-> NoFault, struck |-> FALSE,
               faultFree |-> <<>>, log |-> <<>>, dir |-> OpenedDir.dir]

SavesNext ==
    \/ BeginSave
    \/ SaveSection
    \/ EndSave

SpecSaves == SavesInit /\ [][SavesNext]_vars

\* ------------------------------------------------ RunExternalIncremental
\* cmd.go:51-100. Three threads: the subprocess, which writes its lines to the
\* pipes of stdout and stderr and closes both when it exits; the caller, which
\* scans stdout, receives from done and calls Wait; the goroutine, which scans
\* stderr and sends on done. A line is its length in bytes without the line
\* end. call holds the lines the subprocess has yet to write, the pipes, what
\* the callbacks were passed, and the positions of the caller (pc) and of the
\* goroutine (gpc).
LineLengths == {0, 1, MaxScanTokenSize - 1, MaxScanTokenSize}

Outputs == UNION {[1..k -> LineLengths] : k \in 0..MaxOutput}

\* bufio.Scanner.Scan with ScanLines: the line and its end must fit the
\* buffer; if the buffer is full and holds no line end Scan returns false
\* (ErrTooLong)
TooLong(line) == line + 1 > MaxScanTokenSize

\* Scan on a pipe: the next line, or false at a line that is too long and
\* at the end of the stream; it blocks while the pipe is empty and open
ScanReady(pipe, exited) == pipe /= <<>> \/ exited

ScanOk(pipe) == pipe /= <<>> /\ ~TooLong(Head(pipe))

\* the subprocess writes its next line to stdout; the write blocks while the
\* pipe is full
WriteStdout ==
    /\ UNCHANGED <<runvars, db2, files>>
    /\ ~call.exited
    /\ call.outLeft /= <<>>
    /\ Len(call.outPipe) < PipeLines
    /\ call' = [call EXCEPT !.outPipe = Append(@, Head(call.outLeft)), !.outLeft = Tail(@)]

WriteStderr ==
    /\ UNCHANGED <<runvars, db2, files>>
    /\ ~call.exited
    /\ call.errLeft /= <<>>
    /\ Len(call.errPipe) < PipeLines
    /\ call' = [call EXCEPT !.errPipe = Append(@, Head(call.errLeft)), !.errLeft = Tail(@)]

\* the subprocess has written everything: it exits, which closes both streams
Exit ==
    /\ UNCHANGED <<runvars, db2, files>>
    /\ ~call.exited
    /\ call.outLeft = <<>> /\ call.errLeft = <<>>
    /\ \E status \in {0, 1} : call' = [call EXCEPT !.exited = TRUE, !.status = status]

\* cmd.go:85-87  a turn of the caller's loop over stdout
ScanStdout ==
    /\ UNCHANGED <<runvars, db2, files>>
    /\ call.pc = "scan"
    /\ ScanReady(call.outPipe, call.exited)
    /\ call' = IF ScanOk(call.outPipe)
               THEN [call EXCEPT !.outPipe = Tail(@), !.outCb = Append(@, Head(call.outPipe))]
               ELSE [call EXCEPT !.pc = "recv"]

\* cmd.go:76-81  a turn of the goroutine's loop over stderr
ScanStderr ==
    /\ UNCHANGED <<runvars, db2, files>>
    /\ call.gpc = "scan"
    /\ ScanReady(call.errPipe, call.exited)
    /\ call' = IF ScanOk(call.errPipe)
               THEN [call EXCEPT
                        !.errPipe = Tail(@),
                        !.errCb = IF call.hasErrCb THEN Append(@, Head(call.errPipe)) ELSE @]
               ELSE [call EXCEPT !.gpc = "send"]

\* cmd.go:82, cmd.go:91  done has no buffer: the goroutine's send and the
\* caller's receive happen together
Done ==
    /\ UNCHANGED <<runvars, db2, files>>
    /\ call.gpc = "send"
    /\ call.pc = "recv"
    /\ call' = [call EXCEPT !.gpc = "ended", !.pc = "wait"]

\* cmd.go:92-99  Wait returns when the subprocess has exited; its error ends
\* the process
Wait ==
    /\ UNCHANGED <<runvars, db2, files>>
    /\ call.pc = "wait"
    /\ call.exited
    /\ call' = [call EXCEPT !.pc = IF call.status = 0 THEN "returned" ELSE "fatal"]

\* cmd.go:55-83  the subprocess has been started and the goroutine made
CmdInit ==
    /\ RunUnused
    /\ StoreIdle
    /\ \E stdout \in Outputs, stderr \in Outputs, hasErrCb \in BOOLEAN :
          call = [pc |-> "scan", gpc |-> "scan", stdout |-> stdout, stderr |-> stderr,
                  hasErrCb |-> hasErrCb, outLeft |-> stdout, errLeft |-> stderr,
                  outPipe |-> <<>>, errPipe |-> <<>>, exited |-> FALSE, status |-> 0,
                  outCb |-> <<>>, errCb |-> <<>>]

CmdNext ==
    \/ WriteStdout
    \/ WriteStderr
    \/ Exit
    \/ ScanStdout
    \/ ScanStderr
    \/ Done
    \/ Wait

SpecCmd == CmdInit /\ [][CmdNext]_vars

\* ------------------------------------------------- stating the properties
\* the parents a commit names, and the children recorded for it
ParentSet(g, h) == Range(g[h].parents)

ChildSet(g, h) == Range(g[h].children)

\* every parent that a commit of g names is a key of g
Closed(g) == \A h \in DOMAIN g : ParentSet(g, h) \subseteq DOMAIN g

\* the commits of g that can be reached from S along parent links
RECURSIVE ReachFrom(_, _)
ReachFrom(g, S) ==
    LET more == S \cup {p \in DOMAIN g : \E c \in S : p \in ParentSet(g, c)}
    IN  IF more = S THEN S ELSE ReachFrom(g, more)

\* the positions of the refs that dangle, and the refs that do not
Dangling == {i \in DOMAIN refs : ~InGraph(graph, refs[i].Hash)}

KeptRefs == SelectSeq(refs, LAMBDA r : InGraph(graph, r.Hash))

KeptTargets == {KeptRefs[i].Hash : i \in DOMAIN KeptRefs}

\* the commits a ref stands on, and all that is reachable from them
RefTargets == {refs[i].Hash : i \in DOMAIN refs \ Dangling}

Reachable == ReachFrom(graph, RefTargets)

\* the log A <- B <- C with a single ref on C
IsChain ==
    /\ DOMAIN graph = 1..3
    /\ graph[1].parents = <<>> /\ graph[2].parents = <<1>> /\ graph[3].parents = <<2>>
    /\ refs = <<Ref(3, 1)>>

\* C1: when the traversal has ended on a commit set whose parents are all
\* present, c is recorded as a child of p exactly when p is a parent of c and c
\* is reachable from a ref that is in the graph; on the chain A <- B <- C with
\* one ref on C the children are {B}, {C}, {} and three commits were visited.
C1_ChildrenInvertParents ==
    (pc = "built" /\ Closed(graph)) =>
        /\ LET reached == Reachable
           IN  \A p, c \in DOMAIN graph :
                   c \in ChildSet(graph, p) <=> (p \in ParentSet(graph, c) /\ c \in reached)
        /\ IsChain =>
              /\ graph[1].children = <<2>>
              /\ graph[2].children = <<3>>
              /\ graph[3].children = <<>>
              /\ Cardinality(visited) = 3

C1_ChainBuilt ==
    /\ pc = "built"
    /\ IsChain
    /\ graph[1].children = <<2>> /\ graph[2].children = <<3>>
    /\ visited = {1, 2, 3}

\* C2: at the end of the traversal the hash of a ref on a fetched commit is
\* among db.tips exactly when that commit has no children; a ref on a commit
\* that the ancestry of another ref passes through is not a tip. No tip is
\* listed twice.
C2_TipsAreChildless ==
    pc = "built" =>
        /\ \A h \in RefTargets : h \in Range(db.tips) <=> graph[h].children = <<>>
        /\ \A h, k \in RefTargets :
              (h /= k /\ h \in ReachFrom(graph, {k})) => h \notin Range(db.tips)
        /\ Range(db.tips) \subseteq RefTargets
        /\ NoDup(db.tips)

C2_RefBelowAnotherRef ==
    /\ pc = "built"
    /\ \E h, k \in RefTargets :
          /\ h /= k /\ h \in ReachFrom(graph, {k})
          /\ k \in Range(db.tips) /\ h \notin Range(db.tips)

\* C3: when graph construction has completed, every parent hash named by any
\* commit of the graph, the commits that no ref reaches included, is a key of
\* the graph.
C3_ClosedOnCompletion == pc = "built" => Closed(graph)

\* C4: the visited set at the end of the traversal is the set of commits
\* reachable from the refs that are in the graph, whatever order the refs were
\* processed in; the reported number of reachable commits is its size.
C4_VisitedIsReachable ==
    pc = "built" =>
        /\ visited = Reachable
        /\ hist.visited = Reachable
        /\ Reachable = DOMAIN graph => Cardinality(visited) = Len(graph)

\* refs on 2 and 3, both children of 1, the ref on 3 processed first; one
\* commit of the graph is not reachable
C4_SeededOutOfOrder ==
    /\ pc = "built"
    /\ RefTargets = {2, 3}
    /\ graph[1].children = <<3, 2>>
    /\ visited = {1, 2, 3}

\* C5: refs on hashes absent from the commit set never end the run, are
\* counted one by one, never appear among the tips, and leave the seeds, the
\* visited set and the tips as they would be had the refs been removed.
C5_DanglingRefsAreInert ==
    /\ pc = "fatal" =>
          /\ fatal = Fatal("not in graph", AbsentHash)
          /\ \E c \in Reachable : AbsentHash \in ParentSet(graph, c)
    /\ pc \in {"seed", "fatal", "built"} =>
          /\ Len(missingRefs) = Cardinality(Dangling)
          /\ graphTips = MakeGraphTips(graph, KeptRefs, EmptyMap)
    /\ pc = "built" =>
          LET kept == ReachFrom(graph, KeptTargets)
          IN  /\ \A i \in Dangling : refs[i].Hash \notin Range(db.tips)
              /\ visited = kept
              /\ \A h \in DOMAIN graph :
                     ChildSet(graph, h) = {c \in kept : h \in ParentSet(graph, c)}
              /\ Range(db.tips) = KeptTargets \ UNION {ParentSet(graph, c) : c \in kept}

\* one ref dangles, the other is walked and ends as the tip
C5_DanglingRefSeen ==
    /\ pc = "built"
    /\ Len(refs) = 2 /\ Len(missingRefs) = 1
    /\ Len(db.tips) = 1
    /\ Cardinality(visited) > 1

\* C6: the commits that the traversal did not visit are still keys of the
\* graph, carry their parents, have no children and are never tips.
C6_UnvisitedKept ==
    pc = "built" =>
        /\ DOMAIN graph = DOMAIN repo.log
        /\ db.graph = graph
        /\ \A h \in DOMAIN graph \ visited :
              /\ graph[h].parents = repo.log[h].parents
              /\ graph[h].children = <<>>
              /\ h \notin Range(db.tips)

C6_SomeUnvisited ==
    /\ pc = "built"
    /\ visited /= {}
    /\ \E h \in DOMAIN graph \ visited : graph[h].parents /= <<>>

\* C7: the children recorded for a commit are, as a set, the same whatever the
\* order of the work queue, without duplicates; a second traversal of the
\* graph the first one annotated changes no children list.
C7_ChildrenStable ==
    pc = "built" =>
        /\ LET reached == Reachable
           IN  \A h \in DOMAIN graph :
                   /\ NoDup(graph[h].children)
                   /\ ChildSet(graph, h) = {c \in reached : h \in ParentSet(graph, c)}
        /\ hist.pass = 2 =>
              \A h \in DOMAIN graph : graph[h].children = hist.children[h]

C7_TraversedTwice ==
    /\ pc = "built"
    /\ hist.pass = 2
    /\ \E h \in DOMAIN graph : Len(graph[h].children) = 2
    /\ \A h \in DOMAIN graph : graph[h].children = hist.children[h]

\* the database directory says that nothing has changed: the stored object
\* count is the live one, the stored refs are the live refs, in order, and
\* the stored graphUpToDate is true (db.go:158-169)
StoredUpToDate ==
    /\ disk.repoObjects.exists /\ disk.repoObjects.content = repo.numObjects
    /\ disk.refs.exists /\ disk.refs.content = repo.refs
    /\ disk.info.exists /\ disk.info.content = TRUE

\* the positions of a run at which it writes the database directory, and after
SavePcs == {"save", "saverefs", "saveroots", "savetips", "savegraph", "exit"}

\* C8: while the database directory says that nothing has changed, the run
\* does not fetch the log and does not rebuild the graph.
C8_ShortCircuit ==
    (StoredUpToDate /\ pc \notin SavePcs) =>
        /\ hist.logFetched = 0
        /\ pc \notin RebuildPcs
        /\ ~db.graphDirty

\* C9: the run decides that the database is up to date, and so skips the
\* fetch of the log, exactly when the stored count equals the live count, the
\* stored refs equal the live refs and the stored graphUpToDate is true.
C9_DecisionIsConjunction ==
    pc \in {"parse", "built"} => (hist.logFetched = 0 <=> StoredUpToDate)

\* C10: while the graph is being rebuilt the object count, the refs and the
\* graph are marked dirty and the stored graphUpToDate is false, so that the
\* run after a run that died in the rebuild reads graphUpToDate = false.
C10_FailStale ==
    /\ pc \in RebuildPcs =>
          /\ db.numRepoObjectsDirty /\ db.refsDirty /\ db.graphDirty
          /\ disk.info.exists /\ disk.info.content = FALSE
    /\ hist.killed = "rebuild" => (disk.info.exists /\ disk.info.content = FALSE)

\* A database directory as a process finds it: the files may have been cut
\* short or edited since they were written. The header, the base info and the
\* commits as the program writes them, or with a line that it does not write.
HeaderFiles ==
    LET written == HeaderLines([repoPath |-> <<"/", "r1">>, vcs |-> Str("git")])
    IN  {written, <<written[1], Str("bogus")>>}

InfoFiles ==
    LET written == InfoLines(InfoChoice)
    IN  {written,
         [written EXCEPT ![1] = Str("numRepoObjects=") \o Str("x")],
         [written EXCEPT ![4] = Str("graphUpToDate=") \o Str("maybe")],
         [written EXCEPT ![3] = Str("bogus")],
         <<Str("numRepoCommits=")>>}

CommitFiles ==
    LET written == CommitsLines(Prefix(DbCommits, 1), 0)
    IN  {written,
         Tail(written),
         [written EXCEPT ![1] = Str("-- ") \o Itoa(1)],
         [written EXCEPT ![1] = Str("-- ") \o Str("x")],
         <<Str("bogus")>>}

LoadDirs ==
    LET base(header) == HeaderName :> File(header)
        commits(lines) ==
            (CommitsName :> File(CommitsBaseLines([NewVcsCommits EXCEPT
                                     !.commitFiles = <<CommitsFileName>>])))
            @@ (HashesName :> File(<<Str("h1")>>))
            @@ (CommitsFileName :> File(lines))
    IN  UNION {{base(header)}
               \cup {base(header) @@ (InfoName :> File(lines)) : lines \in InfoFiles}
               \cup {base(header) @@ commits(lines) : lines \in CommitFiles} :
               header \in HeaderFiles}

LoadInit ==
    /\ RunUnused
    /\ db2 = NewVcsDb2
    /\ files \in {[kind |-> "dir", entries |-> entries] : entries \in LoadDirs}
    /\ call = [state |-> "closed", op |-> "", err |-> "", fault |-> NoFault,
               was |-> NewVcsDb2, wrote |-> {}, arg |-> NoArg,
               dir |-> [kind |-> "none", entries |-> <<>>], procs |-> 0, calls |-> 0]

LoadNext ==
    \/ CallOpenDb
    \/ CallInfoLoad
    \/ CallCommitsLoad

SpecLoad == LoadInit /\ [][LoadNext]_vars

\* ------------------------------------------------------ SaveOneGraph
\* part_007:451-453  CommitHeap.Less on the heap h, indices counted from 0
Less(h, i, j) == h[i + 1].timestamp < h[j + 1].timestamp

\* part_007:454-456  CommitHeap.Swap
Swap(h, i, j) == [h EXCEPT ![i + 1] = h[j + 1], ![j + 1] = h[i + 1]]

\* up of container/heap, which Push calls on the last index: the element rises
\* while it is less than its parent
RECURSIVE Up(_, _)
Up(h, j) ==
    LET i == (j - 1) \div 2
    IN  IF j = 0 \/ i = j \/ ~Less(h, j, i) THEN h ELSE Up(Swap(h, i, j), i)

\* down of container/heap on the first n elements: the element sinks while its
\* lesser child, the left one if neither is less than the other, is less than it
RECURSIVE Down(_, _, _)
Down(h, i, n) ==
    LET j1 == 2 * i + 1
        j2 == j1 + 1
        j == IF j2 < n /\ Less(h, j2, j1) THEN j2 ELSE j1
    IN  IF j1 >= n THEN h
        ELSE IF ~Less(h, j, i) THEN h
        ELSE Down(Swap(h, i, j), j, n)

\* heap.Push(h, e): CommitHeap.Push appends (part_007:457-459), then up
HeapPush(h, e) == Up(Append(h, e), Len(h))

\* heap.Pop(h): the first and the last are swapped, the new first sinks, and
\* CommitHeap.Pop takes the last off (part_007:460-466)
HeapPop(h) ==
    LET n == Len(h) - 1
        sunk == Down(Swap(h, 0, n), 0, n)
    IN  [e |-> sunk[n + 1], h |-> SubSeq(sunk, 1, n)]

\* part_007:428-434  the notes of a commit
Notes(e) ==
    (IF Len(e.parents) > 1 THEN <<Str("merge")>> ELSE <<>>)
    \o (IF Len(e.children) > 1 THEN <<Str("branch")>> ELSE <<>>)

\* part_007:435-442  the lines of the commit written as number i
GraphLines(e, i) ==
    <<Str("-- ") \o Itoa(i),
      Str("hash=") \o e.hash,
      Str("timestamp=") \o Itoa(e.timestamp),
      Str("name=") \o e.authorName,
      Str("email=") \o e.authorEmail,
      Str("notes=") \o Join(Notes(e), CommaSpace),
      Str("parents=") \o Join(e.parents, Space),
      Str("children=") \o Join(e.children, Space)>>

\* the heap that SaveOneGraph has after it has pushed the commits in that order
RECURSIVE PushAll(_, _)
PushAll(h, es) == IF es = <<>> THEN h ELSE PushAll(HeapPush(h, Head(es)), Tail(es))

\* the lines that SaveOneGraph writes from the heap h, beginning with number i
RECURSIVE PopAll(_, _)
PopAll(h, i) ==
    IF h = <<>> THEN <<>>
    ELSE LET popped == HeapPop(h)
         IN  GraphLines(popped.e, i) \o PopAll(popped.h, i + 1)

GraphName == Str("graph")

\* The graphs to save: the first commits of DbCommits under their hashes, with
\* any author timestamps.
HeapGraphs ==
    UNION {{[key \in {DbCommits[k].hash : k \in 1..n} |->
                LET at == CHOOSE k \in 1..n : DbCommits[k].hash = key
                IN  [DbCommits[at] EXCEPT !.timestamp = ts[at]]] :
              ts \in [1..n -> 1..MaxTimestamp]} :
           n \in 0..Len(DbCommits)}

\* part_007:408-413  the range over the map hands over another commit, in the
\* order that Go chooses, and heap.Push takes it
PushCommit ==
    /\ UNCHANGED <<runvars, db2, files>>
    /\ call.pc = "push"
    /\ \E key \in call.todo :
          call' = [call EXCEPT !.todo = @ \ {key}, !.h = HeapPush(@, graph[key])]

\* part_007:415-421  os.Create after the last Push
CreateGraphFile ==
    /\ UNCHANGED <<runvars, db2>>
    /\ call.pc = "push"
    /\ call.todo = {}
    /\ \E created \in BOOLEAN :
          IF created
          THEN /\ files' = [files EXCEPT !.entries = PutFile(@, GraphName, <<>>)]
               /\ call' = [call EXCEPT !.pc = "pop"]
          ELSE /\ files' = files
               /\ call' = [call EXCEPT !.pc = "returned", !.err = "create"]

\* part_007:425-443  a turn of the loop: heap.Pop and the lines of the commit
PopCommit ==
    /\ UNCHANGED <<runvars, db2>>
    /\ call.pc = "pop"
    /\ call.h /= <<>>
    /\ LET popped == HeapPop(call.h)
           lines == GraphLines(popped.e, call.i)
       IN  /\ call' = [call EXCEPT !.h = popped.h, !.i = @ + 1, !.out = @ \o <<popped.e>>]
           /\ files' = [files EXCEPT
                           !.entries = PutFile(@, GraphName, @[GraphName].content \o lines)]

\* part_007:445-446  the heap is empty: return nil
ReturnFromSave ==
    /\ UNCHANGED <<runvars, db2, files>>
    /\ call.pc = "pop"
    /\ call.h = <<>>
    /\ call' = [call EXCEPT !.pc = "returned"]

HeapInit ==
    /\ \E g \in HeapGraphs :
          /\ RunIdle(g)
          /\ call = [pc |-> "push", todo |-> DOMAIN g, h |-> <<>>, i |-> 0, out |-> <<>>,
                     err |-> ""]
    /\ db2 = NewVcsDb2
    /\ files = [kind |-> "dir", entries |-> <<>>]

HeapNext ==
    \/ PushCommit
    \/ CreateGraphFile
    \/ PopCommit
    \/ ReturnFromSave

SpecHeap == HeapInit /\ [][HeapNext]_vars

\* ------------------------------------------------- the traversal by links
\* run.go:487-546, the GetRepoInfo that keeps a queue of links: a link is a
\* pair of a hash and the hash the walk came from. graph, graphTips, visited
\* and hash are its locals of these names; linksToFollow and parentHash are
\* fields of call.
Link(h, origin) == <<h, origin>>

\* graph[h] of a Go map of Commit values: the zero Commit when h is no key
CommitAt(g, h) == IF InGraph(g, h) THEN g[h] ELSE Commit(NoHash, <<>>)

\* run.go:540-543  the links appended for a commit with parents: hash has been
\* set to parents[0] when the loop over parents[1:] builds them
OtherParentLinks(commit) ==
    [i \in 1..(Len(commit.parents) - 1) |-> Link(commit.parents[i + 1], commit.parents[1])]

\* run.go:491-494  a link without origin for each key of graphTips, in the
\* map's iteration order
SeedLinks ==
    /\ UNCHANGED <<db2, files>>
    /\ pc = "seedlinks"
    /\ \E order \in SeedOrders(graphTips) :
          call' = [call EXCEPT !.linksToFollow = [i \in DOMAIN order |-> Link(order[i], NoHash)]]
    /\ visited' = {}
    /\ pc' = "links"
    /\ UNCHANGED <<db, disk, repo, graph, refs, graphTips, missingRefs, walkRefs, hash, fatal,
                   hist>>

\* run.go:499-504  take the head of the queue
PopLink ==
    /\ UNCHANGED <<db2, files>>
    /\ pc = "links"
    /\ Len(call.linksToFollow) > 0
    /\ hash' = Head(call.linksToFollow)[1]
    /\ call' = [call EXCEPT !.parentHash = Head(call.linksToFollow)[2],
                            !.linksToFollow = Tail(@)]
    /\ pc' = "follow"
    /\ UNCHANGED <<db, disk, repo, graph, refs, graphTips, missingRefs, walkRefs, visited, fatal,
                   hist>>

\* run.go:507-545  one turn of the walk. The child is appended to a copy of
\* graph[parentHash] that is not written back (run.go:512-522), so the graph
\* stays as it is.
FollowLink ==
    /\ UNCHANGED <<db2, files>>
    /\ pc = "follow"
    /\ LET commit == CommitAt(graph, hash)
       IN  IF hash \in visited
           THEN \* run.go:526-528
                /\ pc' = "links"
                /\ hash' = NoHash
                /\ UNCHANGED <<visited, call, fatal>>
           ELSE /\ visited' = visited \cup {hash}
                /\ IF ~InGraph(graph, hash)
                   THEN \* run.go:530-532
                        /\ fatal' = Fatal("unexpected commit hash", hash)
                        /\ pc' = "fatal"
                        /\ UNCHANGED <<hash, call>>
                   ELSE IF Len(commit.parents) = 0
                   THEN \* run.go:536-538
                        /\ call' = [call EXCEPT !.parentHash = hash]
                        /\ hash' = NoHash
                        /\ pc' = "links"
                        /\ UNCHANGED fatal
                   ELSE \* run.go:536, 539-543
                        /\ hash' = commit.parents[1]
                        /\ call' = [call EXCEPT
                                        !.parentHash = hash,
                                        !.linksToFollow = @ \o OtherParentLinks(commit)]
                        /\ pc' = "follow"
                        /\ UNCHANGED fatal
    /\ UNCHANGED <<db, disk, repo, graph, refs, graphTips, missingRefs, walkRefs, hist>>

\* run.go:499, 547-549  the queue is empty
LinksFollowed ==
    /\ UNCHANGED <<db2, files>>
    /\ pc = "links"
    /\ Len(call.linksToFollow) = 0
    /\ pc' = "followed"
    /\ UNCHANGED <<db, disk, repo, locals, fatal, hist, call>>

\* run.go:450-483  the graph of the log and the graphTips of the refs
LinksInit ==
    /\ StoreIdle
    /\ call = [linksToFollow |-> <<>>, parentHash |-> NoHash]
    /\ pc = "seedlinks"
    /\ db = NewVcsDb
    /\ disk = EmptyDisk
    /\ \E n \in 0..MaxCommits : \E log \in Logs(n) : \E rs \in RefLists(n) :
          /\ repo = Repo(1, rs, log, TRUE)
          /\ graph = log
          /\ refs = rs
          /\ graphTips = MakeGraphTips(log, rs, EmptyMap)
    /\ missingRefs = <<>>
    /\ walkRefs = <<>>
    /\ hash = NoHash
    /\ visited = {}
    /\ fatal = NoFatal
    /\ hist = NoHist

LinksNext ==
    \/ SeedLinks
    \/ PopLink
    \/ FollowLink
    \/ LinksFollowed

SpecLinks == LinksInit /\ [][LinksNext]_vars

\* ---------------------------------------------------------------- GitRefs
\* part_001:70-91. A line of `git show-ref --dereference` is a hash, a
\* space and a refname; the hash atom stands for the 40 bytes of L[:40], and
\* L[41:] is what follows the space. The refname of the line that
\* dereferences a tag ends with the atom "^{}".
DerefSuffix == Str("^{}")

ShowRefLine(h, refname) == Str(h) \o Space \o refname

\* strings.HasSuffix
HasSuffix(text, suffix) ==
    Len(text) >= Len(suffix)
    /\ SubSeq(text, Len(text) - Len(suffix) + 1, Len(text)) = suffix

\* a GitRefs that keeps the refname as show-ref printed it
KeepSuffix(refname) == refname

\* part_001:80-82  refname without its "^{}"
TrimSuffix(refname) ==
    IF HasSuffix(refname, DerefSuffix)
    THEN SubSeq(refname, 1, Len(refname) - Len(DerefSuffix))
    ELSE refname

\* the refnames of the outputs: a branch, a tag, and the tag dereferenced
\* (git allows no "^" inside a refname, so "^{}" comes last and once)
ShowRefNames ==
    {Str("refs/heads/master"), Str("refs/tags/v1"), Str("refs/tags/v1") \o DerefSuffix}

ShowRefLines == {ShowRefLine(h, n) : h \in {"h1", "h2"}, n \in ShowRefNames}

ShowRefOutputs == UNION {[1..k -> ShowRefLines] : k \in 0..MaxLines}

\* GitRefs is called on the output stdout: the lines still to scan, the map
\* refnames, the keys the range has not yet yielded, refs, and what the calls
\* before this one returned
GitRefsCall(stdout, returned) ==
    [pc |-> "scan", stdout |-> stdout, rest |-> stdout, refnames |-> EmptyMap,
     todo |-> {}, refs |-> <<>>, returned |-> returned]

\* part_001:77-84  a turn of the loop over the lines
ScanShowRef ==
    /\ UNCHANGED <<runvars, db2, files>>
    /\ call.pc = "scan"
    /\ call.rest /= <<>>
    /\ LET L == Head(call.rest)
           h == SubSeq(L, 1, 1)
           refname == TrimSuffix(SubSeq(L, 3, Len(L)))
       IN  call' = [call EXCEPT
                       !.rest = Tail(@),
                       !.refnames = [n \in DOMAIN @ \cup {refname} |->
                                        IF n = refname THEN h ELSE @[n]]]

\* part_001:86  the range over refnames begins
RangeRefnames ==
    /\ UNCHANGED <<runvars, db2, files>>
    /\ call.pc = "scan"
    /\ call.rest = <<>>
    /\ call' = [call EXCEPT !.pc = "range", !.todo = DOMAIN call.refnames]

\* part_001:86-88  a turn of the range: the map yields any key it has not yielded
AppendRef ==
    /\ UNCHANGED <<runvars, db2, files>>
    /\ call.pc = "range"
    /\ \E refname \in call.todo :
          call' = [call EXCEPT
                      !.todo = @ \ {refname},
                      !.refs = Append(@, [Hash |-> call.refnames[refname],
                                          Refname |-> refname])]

\* part_001:90  return refs
ReturnRefs ==
    /\ UNCHANGED <<runvars, db2, files>>
    /\ call.pc = "range"
    /\ call.todo = {}
    /\ call' = [call EXCEPT !.pc = "returned", !.returned = Append(@, call.refs)]

\* GitRefs is called again, on a repository that has not changed
CallGitRefsAgain ==
    /\ UNCHANGED <<runvars, db2, files>>
    /\ call.pc = "returned"
    /\ Len(call.returned) < MaxRefCalls
    /\ call' = GitRefsCall(call.stdout, call.returned)

GitRefsInit ==
    /\ RunUnused
    /\ StoreIdle
    /\ \E stdout \in ShowRefOutputs : call = GitRefsCall(stdout, <<>>)

GitRefsNext ==
    \/ ScanShowRef
    \/ RangeRefnames
    \/ AppendRef
    \/ ReturnRefs
    \/ CallGitRefsAgain

SpecGitRefs == GitRefsInit /\ [][GitRefsNext]_vars

\* ------------------------------------------------------------ the VcsDb2
\* the files a section is persisted in
SectionFiles(d, section) ==
    CASE section = "info" -> {InfoName}
      [] section = "refs" -> {RefsName}
      [] section = "commits" -> CommitsNames \cup {d.commits.hashFile}
                                \cup Range(d.commits.commitFiles)

\* the file of that name is what it was when the last call began
Untouched(name) ==
    /\ name \notin call.wrote
    /\ FileExists(files.entries, name) = FileExists(call.dir.entries, name)
    /\ FileExists(files.entries, name) => files.entries[name] = call.dir.entries[name]

\* C11: a VcsDb2.Save creates, truncates and writes no file of a section whose
\* dirty flag was false when it was called, and never the header file.
C11_SaveWritesDirtyOnly ==
    call.op = "Save" =>
        /\ Untouched(HeaderName)
        /\ \A section \in {"info", "refs", "commits"} :
              ~Dirty(call.was)[section] =>
                  \A name \in SectionFiles(call.was, section) : Untouched(name)

\* a Save has written the info of a database whose refs and commits were clean
C11_SavedInfoOnly ==
    /\ call.op = "Save"
    /\ Dirty(call.was) = [info |-> TRUE, refs |-> FALSE, commits |-> FALSE]
    /\ call.wrote = {InfoName}
    /\ files.entries[InfoName] = File(InfoLines(call.was.info))

\* the call was a Save of that section, which was dirty, and creating or
\* writing one of its files has failed
SaveFailed(op, section) ==
    /\ call.op = op
    /\ Dirty(call.was)[section]
    /\ call.fault.kind \in {"create", "write"}

\* C12: after a Save of the info, refs or commits section in which creating or
\* writing the file has failed, the dirty flag of that section is still set.
C12_FailedSaveStaysDirty ==
    /\ SaveFailed("InfoSave", "info") => db2.info.dirty
    /\ SaveFailed("RefsSave", "refs") => db2.refs.dirty
    /\ SaveFailed("CommitsSave", "commits") => db2.commits.dirty

\* C13: when opening, creating or writing a file has failed during a Load or a
\* Save, VcsDb2.Save included, the caller is returned an error.
C13_FaultIsReported ==
    (call.op \in Calls /\ call.fault.kind \in {"open", "create", "write"}) => call.err /= ""

\* the files of the commits section are what VcsCommits.Save writes for h
CommitsOnDisk(h) ==
    LET saved == CommitsSave(h, files.entries, NoFault).files
    IN  \A name \in CommitsNames :
           FileExists(files.entries, name) /\ files.entries[name] = saved[name]

\* the fields of a commit that the round trip is to keep
Persisted(c) ==
    [hash |-> c.hash, timestamp |-> c.timestamp, authorName |-> c.authorName,
     authorEmail |-> c.authorEmail]

\* C14: a VcsCommits.Load of what VcsCommits.Save has written for a list of at
\* least one commit returns no error and yields the hashes and the commit
\* records that were saved.
C14_CommitsRoundTrip ==
    (/\ call.op = "CommitsLoad"
     /\ call.fault = NoFault
     /\ call.was.commits.commits /= <<>>
     /\ CommitsOnDisk(call.was.commits))
    => /\ call.err = ""
       /\ db2.commits.hashes = call.was.commits.hashes
       /\ [i \in DOMAIN db2.commits.commits |-> Persisted(db2.commits.commits[i])]
          = [i \in DOMAIN call.was.commits.commits |->
                Persisted(call.was.commits.commits[i])]

\* ------------------------------------------------------ SaveOneGraph
\* the commits of the graph in the order of their hashes
ByHash(g) ==
    LET hashes == {DbCommits[k].hash : k \in DOMAIN DbCommits} \cap DOMAIN g
        n == Cardinality(hashes)
    IN  [k \in 1..n |-> g[DbCommits[k].hash]]

\* the file that a SaveOneGraph has completed
Saved == call.pc = "returned" /\ call.err = ""

\* C15: what SaveOneGraph writes for a graph is the same for every order in
\* which the map hands over the commits: it is what it writes when they come
\* in the order of their hashes.
C15_SaveIsDeterministic ==
    Saved => files.entries[GraphName].content = PopAll(PushAll(<<>>, ByHash(graph)), 0)

\* the commits are written in an order in which no timestamp is less than the
\* one before it
C15_SavedByTimestamp ==
    Saved => \A k \in 1..(Len(call.out) - 1) :
                call.out[k].timestamp <= call.out[k + 1].timestamp

\* ------------------------------------------------------------ the VcsDb2
\* the call was that Load, and none of these files existed
LoadedAbsent(op, names) ==
    call.op = op /\ \A name \in names : ~FileExists(files.entries, name)

\* OpenDb has found the directory without a header file in it
OpenedHeaderless ==
    /\ call.op = "OpenDb"
    /\ call.dir.kind = "dir"
    /\ ~FileExists(call.dir.entries, HeaderName)

\* C16: a Load of the info, refs or commits section whose files do not exist
\* returns no error and leaves the section empty, whatever it held in memory;
\* OpenDb on a directory without a header file is fatal.
C16_AbsentLoadsEmpty ==
    /\ LoadedAbsent("InfoLoad", {InfoName}) =>
          /\ call.err = ""
          /\ db2.info.numRepoObjects = 0
          /\ db2.info.numRepoCommits = 0
    /\ LoadedAbsent("RefsLoad", {RefsName}) => call.err = "" /\ db2.refs.refs = <<>>
    /\ LoadedAbsent("CommitsLoad", CommitsNames) =>
          /\ call.err = ""
          /\ db2.commits.hashes = <<>>
          /\ db2.commits.commits = <<>>
    /\ OpenedHeaderless => call.state = "fatal"

\* the parts of C16 that hold: the refs and commits sections, and the header
C16_AbsentRefsCommitsHeader ==
    /\ LoadedAbsent("RefsLoad", {RefsName}) => call.err = "" /\ db2.refs.refs = <<>>
    /\ LoadedAbsent("CommitsLoad", CommitsNames) =>
          /\ call.err = ""
          /\ db2.commits.hashes = <<>>
          /\ db2.commits.commits = <<>>
    /\ OpenedHeaderless => call.state = "fatal"

\* the header that was stored in the directory when the last call began
StoredHeader == HeaderLoad(NewVcsHeader, call.dir.entries, NoFault).st

\* OpenDb was called on a database that exists with a repository path or a
\* version control system that is given and is not the stored one
ReopenedWithOther ==
    /\ call.op = "OpenDb"
    /\ call.dir.kind = "dir"
    /\ FileExists(call.dir.entries, HeaderName)
    /\ \/ call.arg.repoPath /= EmptyStr /\ Abs(call.arg.repoPath) /= StoredHeader.repoPath
       \/ call.arg.vcs /= EmptyStr /\ call.arg.vcs /= StoredHeader.vcs

\* C17: OpenDb on an existing database rejects a repoPath or vcs argument that
\* is not empty and differs from what the header stores.
C17_ReopenValidates == ReopenedWithOther => call.state = "fatal"

\* the line begins with none of the keys
Unrecognised(line, keys) == \A key \in keys : ~HasPrefix(line, Str(key))

\* the line has one of the keys, and what follows is no integer
NoInteger(line, keys) ==
    \E key \in keys : HasPrefix(line, Str(key)) /\ ~Atoi(After(line, Str(key))).ok

BadHeaderLine(line) == Unrecognised(line, {"repoPath=", "vcs="})

BadInfoLine(line) ==
    \/ Unrecognised(line, {"numRepoObjects=", "numRepoCommits=", "refsSignature=",
                           "graphUpToDate="})
    \/ NoInteger(line, {"numRepoObjects=", "numRepoCommits="})
    \/ /\ HasPrefix(line, Str("graphUpToDate="))
       /\ After(line, Str("graphUpToDate=")) \notin {Str("true"), Str("false")}

\* line k of a file of commits is a marker whose index is not the number of
\* markers before it
BadMarker(lines, k) ==
    /\ getkvint(lines[k], Str("-- ")).ok
    /\ getkvint(lines[k], Str("-- ")).val
       /= Cardinality({j \in 1..(k - 1) : HasPrefix(lines[j], Str("-- "))})

BadCommitLine(line) ==
    \/ Unrecognised(line, {"-- ", "hash=", "timestamp=", "authorName=", "authorEmail=",
                           "parents=", "children="})
    \/ NoInteger(line, {"-- ", "timestamp="})

\* the lines of the file of that name, if there is one
LinesOf(dir, name) ==
    IF FileExists(dir.entries, name) THEN Range(dir.entries[name].content) ELSE {}

CorruptCommits(name) ==
    \/ \E line \in LinesOf(files, name) : BadCommitLine(line)
    \/ /\ FileExists(files.entries, name)
       /\ \E k \in DOMAIN files.entries[name].content :
             BadMarker(files.entries[name].content, k)

\* C18: a Load of the header, the base info or the commits from a file with a
\* line of no recognised key, with no integer where one belongs, with a boolean
\* that is neither true nor false, or with a marker of the wrong index returns
\* an error; for the header, OpenDb reports the database corrupt.
C18_CorruptLineIsError ==
    /\ (call.op = "OpenDb" /\ call.dir.kind = "dir" /\ call.fault = NoFault
        /\ \E line \in LinesOf(call.dir, HeaderName) : BadHeaderLine(line))
       => call.err = "corrupt"
    /\ (call.op = "InfoLoad" /\ call.fault = NoFault
        /\ \E line \in LinesOf(files, InfoName) : BadInfoLine(line))
       => call.err \notin {"", "panic"}
    /\ (call.op = "CommitsLoad" /\ call.fault = NoFault
        /\ \E name \in Range(db2.commits.commitFiles) : CorruptCommits(name))
       => call.err \notin {"", "panic"}

\* the same for the header and the base info alone
C18_CorruptHeaderInfo ==
    /\ (call.op = "OpenDb" /\ call.dir.kind = "dir" /\ call.fault = NoFault
        /\ \E line \in LinesOf(call.dir, HeaderName) : BadHeaderLine(line))
       => call.err = "corrupt"
    /\ (call.op = "InfoLoad" /\ call.fault = NoFault
        /\ \E line \in LinesOf(files, InfoName) : BadInfoLine(line))
       => call.err \notin {"", "panic"}

\* the lists that getkvstrlist reads from the lines of the file that have the key
ListsRead(name, key) ==
    LET HasKey(line) == HasPrefix(line, Str(key))
        lines == SelectSeq(files.entries[name].content, HasKey)
    IN  [i \in DOMAIN lines |-> getkvstrlist(lines[i], Str(key)).val]

\* C19: the list fields that VcsCommits.Save has written, commitFiles and the
\* parents and children of every commit, are read back from their lines with
\* the same elements in the same order.
C19_ListsRoundTrip ==
    (call.op = "CommitsSave" /\ call.fault = NoFault)
    => /\ ListsRead(CommitsName, "commitFiles=") = <<db2.commits.commitFiles>>
       /\ ListsRead(CommitsFileName, "parents=")
          = [i \in DOMAIN db2.commits.commits |-> db2.commits.commits[i].parents]
       /\ ListsRead(CommitsFileName, "children=")
          = [i \in DOMAIN db2.commits.commits |-> db2.commits.commits[i].children]

\* the same for commitFiles alone
C19_CommitFilesRoundTrip ==
    (call.op = "CommitsSave" /\ call.fault = NoFault)
    => ListsRead(CommitsName, "commitFiles=") = <<db2.commits.commitFiles>>

\* C20: the header file is created only by an OpenDb that finds no directory,
\* and once it exists no OpenDb, Load or Save changes it.
C20_HeaderWriteOnce ==
    [][/\ FileExists(files.entries, HeaderName) =>
             /\ FileExists(files'.entries, HeaderName)
             /\ files'.entries[HeaderName] = files.entries[HeaderName]
       /\ HeaderName \in call'.wrote => call'.op = "OpenDb" /\ files.kind = "none"]_vars

\* the last of the processes has reopened the database and has saved dirty
\* sections, and the header file is what the header in memory was loaded from
C20_SavedAfterReopen ==
    /\ call.op = "Save"
    /\ call.procs = MaxProcs
    /\ call.wrote /= {}
    /\ files.entries[HeaderName] = File(HeaderLines(db2.hdr))

\* ------------------------------------------------------------------ C21
\* the positions of a run before Save (part_002:26-29: Load, Analyze)
PreSavePcs ==
    {"load", "analyze", "count", "gitrefs", "roots", "log", "parse", "refs", "seed",
     "loop", "walk", "built"}

\* a dirty flag of d is clear in e
Cleared(d, e) ==
    \/ d.numRepoObjectsDirty /\ ~e.numRepoObjectsDirty
    \/ d.refsDirty /\ ~e.refsDirty
    \/ d.rootsDirty /\ ~e.rootsDirty
    \/ d.tipsDirty /\ ~e.tipsDirty
    \/ d.graphDirty /\ ~e.graphDirty

\* the run has ended on a malformed log line or on a parent that is not in the graph
FatalInRebuild == pc = "fatal" /\ fatal.why \in {"bad log", "not in graph"}

\* C21: a run that ends on a malformed log line or an absent parent ends
\* before any Save step, with the files as they were and no dirty flag
\* cleared: no step of a run before Save writes a file or clears a flag, a
\* run is before Save for as long as it has not left for Save or ended, and
\* the two fatal errors happen in graph construction, which is before Save.
C21_FatalBeforeSave ==
    [][/\ (pc \in PreSavePcs /\ pc' /= "load")
          => /\ disk' = disk
             /\ ~Cleared(db, db')
             /\ pc' \in PreSavePcs \cup {"save", "fatal"}
       /\ (pc' \in PreSavePcs \ {"load"}) => pc \in PreSavePcs
       /\ (FatalInRebuild' /\ pc /= "fatal") => pc \in {"parse", "walk"}
       /\ pc = "fatal" => (pc' \in {"fatal", "load"} /\ disk' = disk)]_vars

\* a run on a database that holds refs has ended on an absent parent, with
\* the refs it fetched still unsaved
C21_FatalOnAbsentParent ==
    /\ pc = "fatal"
    /\ fatal.why = "not in graph"
    /\ disk.refs.exists
    /\ disk.refs.content /= db.refs
    /\ db.refsDirty

\* ------------------------------------------------------------------ C22
\* What GitRootCommits (part_001:62-65) can report to a run whose GitLogAll
\* (part_001:42-46) reports log: the two are separate git processes, and the
\* repository may change between them. Commits are immutable, so the two
\* differ in the commits that the refs reach: a root that was reachable when
\* rev-list ran may be gone from the log (its ref was deleted: AbsentHash),
\* and a root of the log may have been unknown to rev-list.
RootChoices(log) ==
    {RootsOf(log), <<AbsentHash>> \o RootsOf(log)}
    \cup (IF RootsOf(log) = <<>> THEN {} ELSE {Tail(RootsOf(log))})

\* GetRepoInfo at run.go:74, on a fresh database
RootsInit ==
    /\ pc = "roots"
    /\ \E n \in 0..MaxCommits :
          \E log \in ClosedLogs(n), rs \in RefLists(n) :
             \E roots \in RootChoices(log) :
                /\ repo = [Repo(1, rs, log, TRUE) EXCEPT !.roots = roots]
                /\ refs = rs
                /\ db = FetchRefs(CountObjects(
                           LoadRefs(LoadNumRepoObjects(NewVcsDb, EmptyDisk), EmptyDisk),
                           1), rs)
    /\ disk = EmptyDisk
    /\ graph = <<>>
    /\ graphTips = EmptyMap
    /\ missingRefs = <<>>
    /\ walkRefs = <<>>
    /\ hash = NoHash
    /\ visited = {}
    /\ fatal = NoFatal
    /\ hist = NoHist
    /\ StoreUnused

RootsNext ==
    \/ GetRoots
    \/ GetLog
    \/ MakeGraph
    \/ PartitionRefs
    \/ SeedQueue
    \/ PopRef
    \/ WalkStep
    \/ Finish

SpecRoots == RootsInit /\ [][RootsNext]_vars

\* C22: when GetRepoInfo has built the graph, every hash of db.roots is a
\* key of the graph, of a commit without parents.
C22_RootsAreGraphRoots ==
    pc = "built" =>
        \A i \in DOMAIN db.roots :
            InGraph(db.graph, db.roots[i]) /\ Len(db.graph[db.roots[i]].parents) = 0

\* the roots of a repository that did not change between the two commands
\* are roots of the graph
C22_QuiescentRoots ==
    (pc = "built" /\ repo.roots = RootsOf(repo.log)) =>
        \A i \in DOMAIN db.roots :
            InGraph(db.graph, db.roots[i]) /\ Len(db.graph[db.roots[i]].parents) = 0

\* ------------------------------------------------------------------ C23
\* what show-ref printed for the refname, without the suffix, and its hash
NameOf(L) ==
    LET refname == SubSeq(L, 3, Len(L))
    IN  IF refname /= <<>> /\ refname[Len(refname)] = "^{}"
        THEN SubSeq(refname, 1, Len(refname) - 1)
        ELSE refname

\* the hash of the last line of stdout that carries the name
LastHashOf(stdout, name) ==
    LET last == CHOOSE k \in DOMAIN stdout :
                    /\ NameOf(stdout[k]) = name
                    /\ \A j \in DOMAIN stdout : NameOf(stdout[j]) = name => j <= k
    IN  <<stdout[last][1]>>

\* the list that the call in progress has returned
Returned == call.returned[Len(call.returned)]

\* C23: the list GitRefs returns has one ref per name at most, no name that
\* ends with "^{}", and for each name the hash of the last line of the
\* output that carries the name, with or without the suffix.
C23_RefsCollapsed ==
    call.pc = "returned" =>
        /\ \A i, j \in DOMAIN Returned :
               Returned[i].Refname = Returned[j].Refname => i = j
        /\ \A i \in DOMAIN Returned :
               /\ Returned[i].Refname[Len(Returned[i].Refname)] /= "^{}"
               /\ \E k \in DOMAIN call.stdout : NameOf(call.stdout[k]) = Returned[i].Refname
               /\ Returned[i].Hash = LastHashOf(call.stdout, Returned[i].Refname)

\* GitRefs has returned the commit of an annotated tag: the output named the
\* tag object first and the dereferenced commit after it
C23_TagDereferenced ==
    /\ call.pc = "returned"
    /\ call.stdout = <<ShowRefLine("h1", Str("refs/heads/master")),
                       ShowRefLine("h1", Str("refs/tags/v1")),
                       ShowRefLine("h2", Str("refs/tags/v1") \o DerefSuffix)>>
    /\ \E i \in DOMAIN Returned : Returned[i] = DbRef("h2", "refs/tags/v1")
    /\ Len(Returned) = 2

\* ------------------------------------------------------------------ C24
\* C24: in every state of the traversal no children list of the graph holds a
\* hash twice, and when the traversal has ended every ancestor of a visited
\* merge commit, on each of its branches, has been visited.
C24_NoDuplicateChildren ==
    /\ \A h \in DOMAIN graph : NoDup(graph[h].children)
    /\ pc = "built" =>
          \A m \in visited :
              Len(graph[m].parents) > 1 => ReachFrom(graph, {m}) \subseteq visited

\* the merge 3 of 1 and 2, whose branches meet again in 1, with a ref on the
\* merge and another ref inside its history
C24_BranchesConverge ==
    /\ pc = "built"
    /\ DOMAIN graph = 1..3
    /\ Range(graph[3].parents) = {1, 2}
    /\ graph[2].parents = <<1>>
    /\ Len(refs) = 2 /\ RefTargets = {2, 3}
    /\ ChildSet(graph, 1) = {2, 3} /\ Len(graph[1].children) = 2
    /\ visited = {1, 2, 3}

\* ------------------------------------------------------------------ C25
\* C25: every link of the queue that has an origin names, as its hash, one of
\* the parents of the origin: the parents after the first of a merge are
\* queued with the merge as origin.
C25_LinkJoinsParentAndChild ==
    pc \in {"links", "follow"} =>
        \A i \in DOMAIN call.linksToFollow :
            LET link == call.linksToFollow[i]
            IN  link[2] /= NoHash =>
                    (InGraph(graph, link[2]) /\ link[1] \in ParentSet(graph, link[2]))

\* ------------------------------------------------------------------ C26
\* a commit is marked visited when it was not, one commit in a step, and the
\* queue grows only in such a step, by the parents after the first of the
\* commit that the step marks
MarksOnce ==
    /\ visited' /= visited => (hash \notin visited /\ visited' = visited \cup {hash})
    /\ (pc = "walk" /\ walkRefs' /= walkRefs) =>
           /\ hash \notin visited /\ hash \in visited'
           /\ walkRefs' = walkRefs \o Tail(graph[hash].parents)

\* the traversal has ended: the queue is empty and the graph is kept
WalkEnded == pc = "built" /\ walkRefs = <<>> /\ db.graph = graph

\* C26: for every log, a log with a parent cycle included, and every ref
\* list the traversal ends with an empty queue; on the way a commit is marked
\* visited once at most and its parents after the first are queued once at
\* most.
C26_TraversalTerminates ==
    /\ [][(pc \in {"loop", "walk"}) => MarksOnce]_vars
    /\ <>WalkEnded

\* the traversal has ended on a log in which 1 is a parent of 2 and 2 a
\* parent of 1, and 3 merges them
C26_CycleWalked ==
    /\ WalkEnded
    /\ DOMAIN graph = 1..3
    /\ 2 \in ParentSet(graph, 1) /\ 1 \in ParentSet(graph, 2)
    /\ Len(graph[3].parents) = 2
    /\ visited = {1, 2, 3}

\* ------------------------------------------------------------------ C27
\* the Saves that have returned and in which no file operation failed
FaultFree(n) == n \in DOMAIN call.faultFree /\ call.faultFree[n]

\* C27: when a Save in which no file operation failed has returned, no
\* section is dirty; the Save called next, nothing having been stored in
\* between, writes no file at any of its steps.
C27_SecondSaveIdle ==
    /\ (call.pc = "open" /\ FaultFree(call.saves)) =>
           (~db2.info.dirty /\ ~db2.refs.dirty /\ ~db2.commits.dirty)
    /\ (call.saves > 1 /\ FaultFree(call.saves - 1)) =>
           (call.log = <<>> /\ files = call.dir)

\* a second Save has returned, the first having written the three sections
\* without a fault
C27_SavedTwice ==
    /\ call.pc = "open"
    /\ call.saves = 2
    /\ FaultFree(1)
    /\ \A name \in {InfoName, RefsName} \cup CommitsNames : FileExists(files.entries, name)
    /\ call.log = <<>>

\* ------------------------------------------------------------------ C28
SectionRank(section) ==
    CASE section = "info" -> 1 [] section = "refs" -> 2 [] section = "commits" -> 3

\* the section whose files this one is
SectionOf(name) ==
    IF name = InfoName THEN "info" ELSE IF name = RefsName THEN "refs" ELSE "commits"

\* the files that the step writes or creates
Written == {name \in FileNames :
               \/ FileExists(files'.entries, name) /= FileExists(files.entries, name)
               \/ (FileExists(files.entries, name)
                   /\ files'.entries[name] /= files.entries[name])}

\* C28: the sections that one Save writes files of come in the order info,
\* refs, commits: a step that writes the refs file comes after the step of
\* the info section, a step that writes a commits file after the steps of the
\* info and the refs section, and none of them writes a file of a section
\* that comes earlier.
C28_SaveInOrder ==
    [][/\ \A i, j \in DOMAIN call'.log :
             i < j => SectionRank(call'.log[i]) < SectionRank(call'.log[j])
       /\ \A name \in Written :
             /\ name /= HeaderName
             /\ call.pc = "save"
             /\ call.i = SectionRank(SectionOf(name))
             /\ \A k \in DOMAIN call.log :
                    SectionRank(call.log[k]) < SectionRank(SectionOf(name))]_vars

\* a Save has written the files of all three sections
C28_AllThreeSaved ==
    /\ call.pc = "open"
    /\ call.saves = 1
    /\ call.log = <<"info", "refs", "commits">>
    /\ \A name \in {InfoName, RefsName} \cup CommitsNames : FileExists(files.entries, name)

\* ------------------------------------------------------------------ C29
\* C29: when RunExternalIncremental returns, outCb has been passed every line
\* the subprocess wrote to stdout and errCb, if there is one, every line it
\* wrote to stderr; Wait is called when the goroutine has sent on done.
C29_EveryLineDelivered ==
    /\ call.pc \in {"wait", "returned", "fatal"} => call.gpc = "ended"
    /\ call.pc = "returned" =>
          /\ call.outCb = call.stdout
          /\ call.hasErrCb => call.errCb = call.stderr

\* a reader has given up and the subprocess waits for room in the pipe
C29_Stuck ==
    /\ call.pc = "recv" /\ call.gpc = "scan"
    /\ ~call.exited
    /\ call.outLeft /= <<>> /\ Len(call.outPipe) = PipeLines
    /\ call.errLeft = <<>> /\ call.errPipe = <<>>

\* the lines are all delivered when none of them fills the buffer of its
\* Scanner, and Wait is called when the goroutine has sent on done
C29_ShortLinesDelivered ==
    /\ call.pc \in {"wait", "returned", "fatal"} => call.gpc = "ended"
    /\ (/\ call.pc = "returned"
        /\ \A i \in DOMAIN call.stdout : ~TooLong(call.stdout[i])
        /\ \A i \in DOMAIN call.stderr : ~TooLong(call.stderr[i]))
       => (call.outCb = call.stdout /\ (call.hasErrCb => call.errCb = call.stderr))

\* ------------------------------------------------------------------ C30
\* C30: two successive calls of GitRefs on a repository that has not changed
\* return the same refs in the same order.
C30_SameOrder ==
    Len(call.returned) = MaxRefCalls => call.returned[1] = call.returned[2]

====
